---- MODULE Spec2Model ----
(***************************************************************************)
(* PixelFlow job lifecycle core: the HTTP control plane (create_job,       *)
(* start_job behind the rate-limit middleware), the job store, the durable *)
(* queue and the worker's process_image handler; and, each on its own, the *)
(* Redis token bucket, the webhook client, the pipeline processor and the  *)
(* worker's usage metering.                                                *)
(*                                                                         *)
(* Strings the code inspects character by character (source_type,          *)
(* object_key, step id/action) are sequences of one-character strings, so  *)
(* that strings.TrimSpace and strings.ToLower are computed, not assumed.   *)
(***************************************************************************)
EXTENDS Integers, Sequences, FiniteSets, TLC

VARIABLES
    jobs,       \* job store: job id -> row, or NoJob
    queue,      \* pending process_image messages (asynq queue)
    submitted,  \* history: every message ever accepted by the queue
    blobs,      \* object keys present in the bucket
    files,      \* paths present on the API host's filesystem
    presigned,  \* history: object keys a presigned PUT URL was requested for
    limiterOn,  \* configuration: Server.rateLimiter is non-nil
    api,        \* API request slot -> the request's handler state
    wrk,        \* worker slot -> the delivery's handler state
    sem,        \* number of tokens held in Server.sem
    usage,      \* usage_logs: the rows of the table
    deliveries, \* number of deliveries the queue has made
    bucket,     \* RedisTokenBucket: configuration, the key's hash, the clock
    webhook,    \* webhook.Client and one call of Send
    proc,       \* pipeline.Processor and one call of Process
    meter,      \* one call of recordUsage: its arguments and the row it builds
    stages      \* the stages' helpers: one path token or one step's output format

\* Components exercised on their own, outside the job lifecycle
standalone == <<bucket, webhook, proc, meter, stages>>

vars == <<jobs, queue, submitted, blobs, files, presigned, limiterOn, api, wrk, sem,
          usage, deliveries, standalone>>

apiOnly == <<queue, submitted, blobs, files, limiterOn, standalone, wrk, sem, usage, deliveries>>

----------------------------------------------------------------------------
(* Bounds of the model *)

MaxJobs == 1
MaxReqs == 2
Concurrency == 2
ConfiguredMaxActiveJobs == 1
MaxDeliveries == 2
ExtraCalls == 1
MaxTicks == 2
MaxMessages == 2
MaxConfiguredAttempts == 3
MaxSteps == 3
MaxToken == 3
MaxSkew == 1
MaxLimited == 2
MaxReplicaCalls == 6

MaxOutputs == 2

(* Program constants *)

MaxRetry == 5

JobIdPool == <<"j1", "j2", "j3", "j4">>
JobIds == {JobIdPool[i] : i \in 1..MaxJobs}
Slots == 1..MaxReqs
Workers == 1..Concurrency

\* sem: make(chan struct{}, max(1, workerCfg.MaxActiveJobs))
MaxActive == IF ConfiguredMaxActiveJobs > 1 THEN ConfiguredMaxActiveJobs ELSE 1

----------------------------------------------------------------------------
(* Strings *)

JobStatusCreated == "created"
JobStatusQueued == "queued"
JobStatusProcessing == "processing"
JobStatusSucceeded == "succeeded"
JobStatusFailed == "failed"

SourceTypeLocalFile == <<"l","o","c","a","l","_","f","i","l","e">>
SourceTypeS3Presigned == <<"s","3","_","p","r","e","s","i","g","n","e","d">>

Whitespace == {" ", "\t", "\n", "\r"}

UpperLetters == <<"A","B","C","D","E","F","G","H","I","J","K","L","M",
                  "N","O","P","Q","R","S","T","U","V","W","X","Y","Z">>
LowerLetters == <<"a","b","c","d","e","f","g","h","i","j","k","l","m",
                  "n","o","p","q","r","s","t","u","v","w","x","y","z">>

ToLowerChar(c) ==
    IF \E i \in 1..26 : UpperLetters[i] = c
    THEN LowerLetters[CHOOSE i \in 1..26 : UpperLetters[i] = c]
    ELSE c

\* strings.ToLower
ToLower(s) == [i \in 1..Len(s) |-> ToLowerChar(s[i])]

\* strings.TrimSpace: drop leading and trailing white space
TrimSpace(s) ==
    LET keep == {i \in 1..Len(s) : s[i] \notin Whitespace}
    IN  IF keep = {} THEN <<>>
        ELSE LET lo == CHOOSE i \in keep : \A k \in keep : i <= k
                 hi == CHOOSE i \in keep : \A k \in keep : i >= k
             IN  SubSeq(s, lo, hi)

\* fmt.Sprintf("uploads/%s/source", jobID)
UploadKey(jobID) == <<"uploads/", jobID, "/source">>

----------------------------------------------------------------------------
(* Request bodies and paths *)

Step(id, action) == [id |-> id, action |-> action]

GoodStep == Step(<<"t">>, <<"r","e","s","i","z","e">>)

Body(wire, st, key, hook, pipeline) ==
    [wire |-> wire, source_type |-> st, object_key |-> key,
     webhook_url |-> hook, pipeline |-> pipeline]

NoBody == Body("none", <<>>, <<>>, <<>>, <<>>)

ValidBodies ==
    { Body("ok", SourceTypeS3Presigned, <<>>, <<>>, <<GoodStep>>),
      Body("ok", <<" ","S","3","_","P","r","e","s","i","g","n","e","d","\t">>,
           <<"x">>, <<>>, <<GoodStep>>),
      Body("ok", SourceTypeLocalFile, <<" ","a"," ">>, <<"h">>, <<GoodStep>>),
      Body("ok", <<"L","O","C","A","L","_","F","I","L","E"," ">>, <<"a">>,
           <<>>, <<GoodStep, Step(<<"w">>, <<"w">>)>>) }

InvalidBodies ==
    { Body("ok", <<>>, <<"a">>, <<>>, <<GoodStep>>),
      Body("ok", <<" ","\t">>, <<"a">>, <<>>, <<GoodStep>>),
      Body("ok", <<"f","t","p">>, <<"a">>, <<>>, <<GoodStep>>),
      Body("ok", <<"l","o","c","a","l">>, <<"a">>, <<>>, <<GoodStep>>),
      Body("ok", <<"s","3","_","p","r","e","s","i","g","n","e","d","x">>,
           <<>>, <<>>, <<GoodStep>>),
      Body("ok", SourceTypeLocalFile, <<>>, <<>>, <<GoodStep>>),
      Body("ok", <<"L","o","c","a","l","_","F","i","l","e">>, <<" ","\n">>,
           <<>>, <<GoodStep>>),
      Body("ok", SourceTypeS3Presigned, <<>>, <<>>, <<>>),
      Body("ok", SourceTypeLocalFile, <<"a">>, <<>>, <<>>),
      Body("ok", SourceTypeS3Presigned, <<>>, <<>>, <<Step(<<>>, <<"r">>)>>),
      Body("ok", SourceTypeS3Presigned, <<>>, <<>>, <<Step(<<" ">>, <<"r">>)>>),
      Body("ok", SourceTypeS3Presigned, <<>>, <<>>, <<Step(<<"t">>, <<>>)>>),
      Body("ok", SourceTypeLocalFile, <<"a">>, <<>>,
           <<GoodStep, Step(<<"u">>, <<"\t"," ">>)>>),
      Body("ok", SourceTypeLocalFile, <<"a">>, <<>>,
           <<GoodStep, Step(<<>>, <<>>), GoodStep>>) }

UndecodableBodies ==
    { Body("malformed", <<>>, <<>>, <<>>, <<>>),
      Body("unknown_field", SourceTypeS3Presigned, <<>>, <<>>, <<GoodStep>>),
      Body("multiple_values", SourceTypeS3Presigned, <<>>, <<>>, <<GoodStep>>) }

Bodies == ValidBodies \cup InvalidBodies \cup UndecodableBodies

\* A start path, after strings.TrimPrefix(path, "/v1/jobs/") and
\* strings.Split(strings.Trim(trimmed, "/"), "/")
UnknownJobId == "nojob"
StartPaths ==
    {<<j, "start">> : j \in JobIds \cup {UnknownJobId}}
        \cup {<<"j1">>, <<"", "start">>, <<"j1", "stop">>, <<"j1", "start", "x">>}

NoPath == <<>>

----------------------------------------------------------------------------
(* Pure functions of the control plane *)

\* decodeJSON: nil, or an error
decodeJSON(body) == IF body.wire = "ok" THEN "nil" ELSE "invalid JSON body"

\* Validate as it was before source types were checked: only a blank source_type,
\* an empty pipeline and blank step fields are refused
Validate_SkipsSourceChecks(r) ==
    IF TrimSpace(r.source_type) = <<>> THEN "source_type is required"
    ELSE IF Len(r.pipeline) = 0 THEN "pipeline must contain at least one step"
    ELSE IF \E i \in 1..Len(r.pipeline) :
                \/ TrimSpace(r.pipeline[i].id) = <<>>
                \/ TrimSpace(r.pipeline[i].action) = <<>>
         THEN "pipeline[i] is incomplete"
    ELSE "nil"

\* CreateJobRequest.Validate: nil, or the error
Validate(r) ==
    LET sourceType == ToLower(TrimSpace(r.source_type))
        bad == {i \in 1..Len(r.pipeline) :
                    \/ TrimSpace(r.pipeline[i].id) = <<>>
                    \/ TrimSpace(r.pipeline[i].action) = <<>>}
    IN  IF sourceType = <<>> THEN "source_type is required"
        ELSE IF sourceType # SourceTypeLocalFile /\ sourceType # SourceTypeS3Presigned
             THEN "unsupported source_type"
        ELSE IF sourceType = SourceTypeLocalFile /\ TrimSpace(r.object_key) = <<>>
             THEN "object_key is required for source_type=local_file"
        ELSE IF Len(r.pipeline) = 0 THEN "pipeline must contain at least one step"
        ELSE IF bad # {} THEN
             LET i == CHOOSE k \in bad : \A m \in bad : k <= m
             IN  IF TrimSpace(r.pipeline[i].id) = <<>>
                 THEN "pipeline[i].id is required"
                 ELSE "pipeline[i].action is required"
        ELSE "nil"

\* extractJobIDFromStartPath: the job id, or "" with an error
extractJobIDFromStartPath(parts) ==
    IF Len(parts) # 2 \/ parts[1] = "" \/ parts[2] # "start" THEN "" ELSE parts[1]

\* time.Duration.Round(time.Second).Seconds() truncated to int, d in milliseconds
RoundToSeconds(ms) ==
    IF ms >= 0 THEN (ms + 500) \div 1000 ELSE -((-ms + 500) \div 1000)

\* retryAfter without the floor of one second
RetryAfterSeconds_NoClamp(ms) == RoundToSeconds(ms)

\* retryAfter of withRateLimit
RetryAfterSeconds(ms) ==
    LET retryAfter == RoundToSeconds(ms)
    IN  IF retryAfter < 1 THEN 1 ELSE retryAfter

\* ratelimit.Decision values the limiter may return
Decision(allowed, remaining, retry_ms) ==
    [err |-> FALSE, allowed |-> allowed, remaining |-> remaining, retry_ms |-> retry_ms]

\* Allow returned (Decision{}, err)
LimiterError == [err |-> TRUE, allowed |-> FALSE, remaining |-> 0, retry_ms |-> 0]

Decisions ==
    { Decision(TRUE, 1, 0), Decision(TRUE, 0, 0),
      Decision(FALSE, 0, 2000), Decision(FALSE, 0, 1500), Decision(FALSE, 0, 1),
      Decision(FALSE, 0, 0) }

CoreDecisions == { Decision(TRUE, 1, 0), Decision(FALSE, 0, 2000) }

CoreBodies ==
    { Body("ok", <<" ","S","3","_","P","r","e","s","i","g","n","e","d","\t">>,
           <<"x">>, <<>>, <<GoodStep>>),
      Body("ok", SourceTypeLocalFile, <<" ","a"," ">>, <<"h">>, <<GoodStep>>),
      Body("ok", SourceTypeS3Presigned, <<>>, <<>>, <<>>) }

CorePaths == {<<j, "start">> : j \in JobIds \cup {UnknownJobId}} \cup {<<"j1">>}

----------------------------------------------------------------------------
(* Store rows, messages, handler records *)

NoJob == [id |-> "", status |-> "", source_type |-> <<>>, object_key |-> <<>>,
          webhook_url |-> <<>>, pipeline |-> <<>>]

Job(id, status, st, key, hook, pipeline) ==
    [id |-> id, status |-> status, source_type |-> st, object_key |-> key,
     webhook_url |-> hook, pipeline |-> pipeline]

\* queue.ProcessImagePayload as NewProcessImageTask encodes it (data says what the
\* task's bytes are) plus the queue's bookkeeping (task id, retry count)
Message(task, job, retried) ==
    [task |-> task, data |-> "json", job_id |-> job.id, source_type |-> job.source_type,
     webhook_url |-> job.webhook_url, object_key |-> job.object_key,
     pipeline |-> job.pipeline, retried |-> retried]

NoMessage == Message(0, NoJob, 0)

\* A task of the same type whose bytes are not the JSON of a payload
Garbage(task) == [Message(task, NoJob, 0) EXCEPT !.data = "garbage"]

\* queue.ParseProcessImagePayload: the error of json.Unmarshal
ParseProcessImagePayload(msg) == IF msg.data = "json" THEN "nil" ELSE "parse payload"

\* A request: the handler's position and locals (body, path, job), what its calls
\* answered (limiter, src, presign, stored, enq), and the response (hdr*, code, out_*)
IdleRequest ==
    [pc |-> "idle", op |-> "", body |-> NoBody, path |-> NoPath,
     limiter |-> "none", job |-> NoJob, jid |-> "", src |-> "unchecked",
     presign |-> "none", stored |-> "none", enq |-> "none",
     hdrRemaining |-> <<>>, hdrRetryAfter |-> <<>>,
     code |-> 0, out_job_id |-> "", out_object_key |-> <<>>, out_state |-> ""]

\* domain.UsageLog; run stands for the values measured in one run of the handler
\* (compute_time_ms, created_at)
UsageLog(jobID, userID, run) == [job_id |-> jobID, user_id |-> userID, run |-> run]

\* A delivery: the handler's position and payload, the number of the delivery,
\* whether its context is cancelled, and what the handler has done in it (status
\* writes, usage write, webhook requests, the error it returned, and in did the
\* calls it made, in the order it made them). A returned handler keeps the record
\* of its delivery until the next message reaches it.
IdleWorker ==
    [pc |-> "idle", msg |-> NoMessage, run |-> 0, cancelled |-> FALSE, result |-> "none",
     wrote |-> <<>>, logged |-> FALSE, events |-> <<>>, did |-> <<>>, err |-> "none"]

----------------------------------------------------------------------------
(* Rate-limit middleware and routing *)

\* writeJSON and return: the handler's locals die with it
Respond(req, code) ==
    [req EXCEPT !.pc = "done", !.code = code, !.body = NoBody, !.path = NoPath,
                !.job = NoJob]

\* routes(): the handler the mux runs for the request
Dispatch(req) ==
    IF req.op = "healthz" THEN Respond(req, 200)
    ELSE [req EXCEPT !.pc = IF req.op = "create" THEN "c_admit" ELSE "s_load"]

\* shouldRateLimit: not GET, and the path starts with /v1/jobs
shouldRateLimit(req) == req.op # "healthz"

\* withRateLimit answering 429 when the limiter call fails
withRateLimit_FailClosed(req, on, answer) ==
    IF ~on THEN Dispatch([req EXCEPT !.limiter = "disabled"])
    ELSE IF ~shouldRateLimit(req) THEN Dispatch([req EXCEPT !.limiter = "exempt"])
    ELSE IF answer.err THEN Respond([req EXCEPT !.limiter = "error"], 429)
    ELSE LET h == [req EXCEPT !.hdrRemaining = <<answer.remaining>>]
         IN  IF answer.allowed THEN Dispatch([h EXCEPT !.limiter = "allowed"])
             ELSE Respond([h EXCEPT !.limiter = "denied",
                                    !.hdrRetryAfter = <<RetryAfterSeconds(answer.retry_ms)>>],
                          429)

\* withRateLimit: the request's state when the middleware has run
withRateLimit(req, on, answer) ==
    IF ~on THEN Dispatch([req EXCEPT !.limiter = "disabled"])
    ELSE IF ~shouldRateLimit(req) THEN Dispatch([req EXCEPT !.limiter = "exempt"])
    ELSE IF answer.err THEN Dispatch([req EXCEPT !.limiter = "error"])
    ELSE LET h == [req EXCEPT !.hdrRemaining = <<answer.remaining>>]
         IN  IF answer.allowed THEN Dispatch([h EXCEPT !.limiter = "allowed"])
             ELSE Respond([h EXCEPT !.limiter = "denied",
                                    !.hdrRetryAfter = <<RetryAfterSeconds(answer.retry_ms)>>],
                          429)

\* Job ids handed to clients in a 202 create response
KnownJobIds ==
    {api[s].out_job_id : s \in {t \in Slots : api[t].op = "create" /\ api[t].code = 202}}

\* id.New(): an id no request has drawn before
UsedIds == {api[s].jid : s \in {t \in Slots : api[t].op = "create"}} \ {""}
NewId == JobIdPool[Cardinality(UsedIds) + 1]

\* Create requests that may still draw an id
Admitting == {s \in Slots : api[s].pc = "c_admit"}

\* A request arrives at app.Handler() and passes the middleware. The pool of job
\* ids bounds the create requests. Clients start
\* the jobs whose id a create response gave them, or an id that names no job.
Arrive(r, req, answers) ==
    /\ api[r].pc = "idle"
    /\ r > 1 => api[r - 1].pc # "idle"
    /\ req.op = "create" => Cardinality(UsedIds) + Cardinality(Admitting) < MaxJobs
    /\ req.op = "start" /\ Len(req.path) = 2 /\ req.path[2] = "start"
            => req.path[1] \in KnownJobIds \cup {UnknownJobId}
    /\ \E answer \in answers \cup {LimiterError} :
            api' = [api EXCEPT ![r] = withRateLimit(req, limiterOn, answer)]
    /\ UNCHANGED <<jobs, presigned, apiOnly>>

CreateRequest(body) == [IdleRequest EXCEPT !.op = "create", !.body = body]
StartRequest(path) == [IdleRequest EXCEPT !.op = "start", !.path = path]
HealthzRequest == [IdleRequest EXCEPT !.op = "healthz"]

----------------------------------------------------------------------------
(* Job store *)

\* JobStore.Get: ok
HasRow(id) == id \in DOMAIN jobs /\ jobs[id] # NoJob

\* UpdateStatus storing a fresh row that carries only the id and the status
UpdateStatus_ReplacesRow(store, id, status) ==
    IF id \in DOMAIN store /\ store[id] # NoJob
    THEN [store EXCEPT ![id] = Job(id, status, <<>>, <<>>, <<>>, <<>>)]
    ELSE store

\* JobStore.UpdateStatus: only the status (and updated_at) of an existing row changes
UpdateStatus(store, id, status) ==
    IF id \in DOMAIN store /\ store[id] # NoJob
    THEN [store EXCEPT ![id].status = status]
    ELSE store

\* The caller of UpdateStatus giving up when the write failed
AfterStatusWrite_GivesUp(ok, next, failure) == IF ok THEN next ELSE failure

\* What the callers of UpdateStatus (handleStartJob, updateJobStatus) go on to
\* after the write: its error is logged and nothing else depends on it
AfterStatusWrite(ok, next, failure) == next

----------------------------------------------------------------------------
(* create_job *)

\* The domain.Job handleCreateJob builds from a valid request
NewJob(jobID, req) ==
    LET sourceType == ToLower(TrimSpace(req.source_type))
        objectKey == IF sourceType = SourceTypeS3Presigned
                     THEN UploadKey(jobID)
                     ELSE TrimSpace(req.object_key)
    IN  Job(jobID, JobStatusCreated, sourceType, objectKey, req.webhook_url, req.pipeline)

\* handleCreateJob going on to the 202 response although jobStore.Create failed
CreateOutcome_IgnoresCreateError(req, job, presignFailed, createFailed) ==
    LET s3 == job.source_type = SourceTypeS3Presigned
        state == IF s3 THEN "ready" ELSE "not_required"
    IN  IF s3 /\ presignFailed
        THEN Respond([req EXCEPT !.jid = job.id, !.presign = "failed"], 500)
        ELSE [req EXCEPT !.pc = "c_respond", !.job = job, !.jid = job.id,
                         !.presign = state,
                         !.stored = IF createFailed THEN "failed" ELSE "ok"]

\* handleCreateJob after validation: 500 when PresignedPutURL or jobStore.Create
\* fails, else on to the 202 response
CreateOutcome(req, job, presignFailed, createFailed) ==
    LET s3 == job.source_type = SourceTypeS3Presigned
        state == IF s3 THEN "ready" ELSE "not_required"
    IN  IF s3 /\ presignFailed
        THEN Respond([req EXCEPT !.jid = job.id, !.presign = "failed"], 500)
        ELSE IF createFailed
        THEN Respond([req EXCEPT !.jid = job.id, !.presign = state, !.stored = "failed"],
                     500)
        ELSE [req EXCEPT !.pc = "c_respond", !.job = job, !.jid = job.id,
                         !.presign = state, !.stored = "ok"]

\* handleCreateJob up to the response: decode, validate, allocate the id, presign,
\* insert the row
CreateJob_Persist(r) ==
    /\ api[r].pc = "c_admit"
    /\ LET req == api[r].body
           job == NewJob(NewId, req)
           s3 == job.source_type = SourceTypeS3Presigned
       IN  IF decodeJSON(req) # "nil" \/ Validate(req) # "nil"
           THEN /\ api' = [api EXCEPT ![r] = Respond(@, 400)]
                /\ UNCHANGED <<jobs, presigned>>
           ELSE \E presignFailed, createFailed \in BOOLEAN :
                  /\ presigned' = IF s3 THEN presigned \cup {job.object_key} ELSE presigned
                  /\ jobs' = IF (s3 /\ presignFailed) \/ createFailed
                             THEN jobs
                             ELSE [jobs EXCEPT ![job.id] = job]
                  /\ api' = [api EXCEPT ![r] =
                                CreateOutcome(@, job, presignFailed, createFailed)]
    /\ UNCHANGED apiOnly

\* writeJSON(w, http.StatusAccepted, ...)
CreateJob_Respond(r) ==
    /\ api[r].pc = "c_respond"
    /\ api' = [api EXCEPT ![r] =
            Respond([@ EXCEPT !.out_job_id = api[r].job.id,
                              !.out_object_key = api[r].job.object_key,
                              !.out_state = api[r].presign], 202)]
    /\ UNCHANGED <<jobs, presigned, apiOnly>>

----------------------------------------------------------------------------
(* start_job *)

\* verifySourceExists: "nil", "missing", or "error" when the check itself failed
verifySourceExists(job, outcome) ==
    IF job.source_type = SourceTypeLocalFile
    THEN IF outcome = "io_error" THEN "error"
         ELSE IF job.object_key \in files THEN "nil" ELSE "missing"
    ELSE IF outcome = "io_error" THEN "error"
         ELSE IF job.object_key \in blobs THEN "nil" ELSE "missing"

\* What handleStartJob answers to the error of verifySourceExists
VerifyErrorStatus(err) == 409

\* handleStartJob enqueueing whatever verifySourceExists returned
GateOutcome_IgnoresMissingSource(req, jobID, getFailed, found, row, err) ==
    IF getFailed THEN Respond([req EXCEPT !.jid = jobID], 500)
    ELSE IF ~found THEN Respond([req EXCEPT !.jid = jobID], 404)
    ELSE [req EXCEPT !.pc = "s_enqueue", !.jid = jobID, !.job = row,
                     !.src = IF err = "nil" THEN "exists" ELSE err]

\* handleStartJob without the 404 of a missing row
GateOutcome_IgnoresNotFound(req, jobID, getFailed, found, row, err) ==
    IF getFailed THEN Respond([req EXCEPT !.jid = jobID], 500)
    ELSE [req EXCEPT !.pc = "s_enqueue", !.jid = jobID, !.job = row, !.src = "exists"]

\* handleStartJob refusing a job that has left the status created
GateOutcome_RefusesStarted(req, jobID, getFailed, found, row, err) ==
    IF getFailed THEN Respond([req EXCEPT !.jid = jobID], 500)
    ELSE IF ~found THEN Respond([req EXCEPT !.jid = jobID], 404)
    ELSE IF err # "nil"
         THEN Respond([req EXCEPT !.jid = jobID, !.src = err], VerifyErrorStatus(err))
    ELSE IF row.status # JobStatusCreated
         THEN Respond([req EXCEPT !.jid = jobID, !.src = "exists"], 409)
         ELSE [req EXCEPT !.pc = "s_enqueue", !.jid = jobID, !.job = row, !.src = "exists"]

\* handleStartJob before the enqueue: 500 when Get fails, 404 without a row, the
\* answer to a verifySourceExists error, else on to the enqueue
GateOutcome(req, jobID, getFailed, found, row, err) ==
    IF getFailed THEN Respond([req EXCEPT !.jid = jobID], 500)
    ELSE IF ~found THEN Respond([req EXCEPT !.jid = jobID], 404)
    ELSE IF err # "nil"
         THEN Respond([req EXCEPT !.jid = jobID, !.src = err], VerifyErrorStatus(err))
         ELSE [req EXCEPT !.pc = "s_enqueue", !.jid = jobID, !.job = row, !.src = "exists"]

\* handleStartJob up to the enqueue: parse the path, load the row, check the source
StartJob_Gate(r) ==
    /\ api[r].pc = "s_load"
    /\ LET jobID == extractJobIDFromStartPath(api[r].path)
           found == HasRow(jobID)
           row == IF found THEN jobs[jobID] ELSE NoJob
       IN  IF jobID = "" THEN api' = [api EXCEPT ![r] = Respond(@, 400)]
           ELSE \E getFailed \in BOOLEAN, outcome \in {"answered", "io_error"} :
                  api' = [api EXCEPT ![r] =
                            GateOutcome(@, jobID, getFailed, found, row,
                                        verifySourceExists(row, outcome))]
    /\ UNCHANGED <<jobs, presigned, apiOnly>>

\* handleStartJob going on to the status write although the enqueue failed
EnqueueOutcome_IgnoresFailure(req, failed) ==
    [req EXCEPT !.pc = "s_status", !.enq = IF failed THEN "failed" ELSE "ok"]

\* handleStartJob after EnqueueProcessImage: 500 when it failed, else on to the
\* status write
EnqueueOutcome(req, failed) ==
    IF failed THEN Respond([req EXCEPT !.enq = "failed"], 500)
    ELSE [req EXCEPT !.pc = "s_status", !.enq = "ok"]

\* handleStartJob: s.queueClient.EnqueueProcessImage
StartJob_Enqueue(r) ==
    /\ api[r].pc = "s_enqueue"
    /\ \E failed \in BOOLEAN :
          /\ queue' = IF failed THEN queue ELSE queue \cup {Message(r, api[r].job, 0)}
          /\ submitted' = IF failed THEN submitted
                          ELSE submitted \cup {Message(r, api[r].job, 0)}
          /\ api' = [api EXCEPT ![r] = EnqueueOutcome(@, failed)]
    /\ UNCHANGED <<jobs, blobs, files, presigned, limiterOn, standalone, wrk, sem, usage, deliveries>>

\* handleStartJob: UpdateStatus(queued), errors only logged, then the 202 response
StartJob_MarkQueued(r) ==
    /\ api[r].pc = "s_status"
    /\ \E ok \in BOOLEAN :
          /\ jobs' = IF ok THEN UpdateStatus(jobs, api[r].job.id, JobStatusQueued) ELSE jobs
          /\ api' = [api EXCEPT ![r] = Respond([@ EXCEPT !.out_job_id = api[r].job.id,
                                                         !.out_state = JobStatusQueued],
                                               AfterStatusWrite(ok, 202, 500))]
    /\ UNCHANGED <<presigned, apiOnly>>

----------------------------------------------------------------------------
(* Clients writing the source *)

\* The client PUTs the source to the presigned URL of a 202 create response
UploadBlob(r) ==
    /\ api[r].op = "create" /\ api[r].code = 202 /\ api[r].out_state = "ready"
    /\ api[r].out_object_key \notin blobs
    /\ blobs' = blobs \cup {api[r].out_object_key}
    /\ UNCHANGED <<jobs, queue, submitted, files, presigned, limiterOn, standalone, api, wrk, sem,
                   usage, deliveries>>

\* The file of a local_file job appears on disk
WriteFile(r) ==
    /\ api[r].op = "create" /\ api[r].code = 202 /\ api[r].out_state = "not_required"
    /\ api[r].out_object_key \notin files
    /\ files' = files \cup {api[r].out_object_key}
    /\ UNCHANGED <<jobs, queue, submitted, blobs, presigned, limiterOn, standalone, api, wrk, sem,
                   usage, deliveries>>

----------------------------------------------------------------------------
(* Worker: handleProcessImage under the asynq server *)

\* updateJobStatus: best effort, a failing write leaves the store as it was; the
\* store refuses a cancelled context
WorkerStatusWrite(w, status, ok) ==
    /\ ok => ~wrk[w].cancelled
    /\ jobs' = IF ok THEN UpdateStatus(jobs, wrk[w].msg.job_id, status) ELSE jobs

\* errors.Is(err, asynq.SkipRetry): the payload parse error is retried like any
\* other
SkipsRetry_Never(err) == FALSE

\* errors.Is(err, asynq.SkipRetry): only the payload parse error wraps it
SkipsRetry(err) == err = "parse payload"

\* asynq after the handler returned: a failed task is retried until MaxRetry is
\* spent, unless the error says to skip the retry
Requeue(q, msg, err) ==
    IF err # "nil" /\ ~SkipsRetry(err) /\ msg.retried < MaxRetry
    THEN q \cup {[msg EXCEPT !.retried = @ + 1]}
    ELSE q

\* asynq hands a pending message to a free handler goroutine, which parses the
\* payload: a payload that does not parse makes the handler return the parse error
\* at once
Deliver(w) ==
    /\ wrk[w].pc = "idle"
    /\ \A v \in Workers : v < w => wrk[v].pc # "idle"
    /\ deliveries < MaxDeliveries
    /\ deliveries' = deliveries + 1
    /\ \E m \in queue :
          \E err \in {ParseProcessImagePayload(m)} :
             IF err # "nil"
             THEN /\ queue' = Requeue(queue \ {m}, m, err)
                  /\ wrk' = [wrk EXCEPT ![w] = [IdleWorker EXCEPT !.msg = m,
                                                                  !.run = deliveries + 1,
                                                                  !.err = err]]
             ELSE /\ queue' = queue \ {m}
                  /\ wrk' = [wrk EXCEPT ![w] = [IdleWorker EXCEPT !.pc = "w_acquire",
                                                                  !.msg = m,
                                                                  !.run = deliveries + 1]]
    /\ UNCHANGED <<jobs, submitted, blobs, files, presigned, limiterOn, standalone, api, sem, usage>>

\* A send on s.sem proceeds without the channel's capacity being respected
SlotFree_IgnoresCapacity(held) == TRUE

\* A send on s.sem proceeds while the channel holds fewer than cap(s.sem) tokens
SlotFree(held) == held < MaxActive

\* s.sem <- struct{}{}
Acquire(w) ==
    /\ wrk[w].pc = "w_acquire"
    /\ SlotFree(sem)
    /\ sem' = sem + 1
    /\ wrk' = [wrk EXCEPT ![w].pc = "w_processing"]
    /\ UNCHANGED <<jobs, queue, submitted, blobs, files, presigned, limiterOn, standalone, api,
                   usage, deliveries>>

\* s.updateJobStatus(ctx, payload.JobID, domain.JobStatusProcessing)
MarkProcessing(w) ==
    /\ wrk[w].pc = "w_processing"
    /\ \E ok \in BOOLEAN :
          /\ WorkerStatusWrite(w, JobStatusProcessing, ok)
          /\ wrk' = [wrk EXCEPT ![w].pc = AfterStatusWrite(ok, "w_pipeline", "w_failed"),
                                ![w].wrote = Append(@, JobStatusProcessing),
                                ![w].did = Append(@, JobStatusProcessing)]
    /\ UNCHANGED <<queue, submitted, blobs, files, presigned, limiterOn, standalone, api, sem,
                   usage, deliveries>>

\* The status written before Process is called
AfterProcess_WritesFirst(status) == <<status, "process">>

\* The calls from Process to the status write that follows its return
AfterProcess(status) == <<"process", status>>

\* Process returns; updateJobStatus(failed) on an error, updateJobStatus(succeeded)
\* otherwise
FinishPipeline(w) ==
    /\ wrk[w].pc = "w_pipeline"
    /\ \E ok \in BOOLEAN :
          \/ /\ WorkerStatusWrite(w, JobStatusFailed, ok)
             /\ wrk' = [wrk EXCEPT ![w].pc = "w_failed", ![w].result = "error",
                                   ![w].wrote = Append(@, JobStatusFailed),
                                   ![w].did = @ \o AfterProcess(JobStatusFailed)]
          \/ /\ ~wrk[w].cancelled   \* the fetch stage returns the error of a cancelled context
             /\ WorkerStatusWrite(w, JobStatusSucceeded, ok)
             /\ wrk' = [wrk EXCEPT ![w].pc = AfterStatusWrite(ok, "w_usage", "w_failed"),
                                   ![w].result = "ok",
                                   ![w].wrote = Append(@, JobStatusSucceeded),
                                   ![w].did = @ \o AfterProcess(JobStatusSucceeded)]
    /\ UNCHANGED <<queue, submitted, blobs, files, presigned, limiterOn, standalone, api, sem,
                   usage, deliveries>>

\* CreateUsageLog with ON CONFLICT (job_id) DO NOTHING: the job's first row stays
CreateUsageLog_KeepsFirst(table, row) ==
    IF \E old \in table : old.job_id = row.job_id THEN table ELSE table \cup {row}

\* CreateUsageLog: INSERT ... ON CONFLICT (job_id) DO UPDATE SET every column to
\* the new row's
CreateUsageLog(table, row) ==
    {old \in table : old.job_id # row.job_id} \cup {row}

\* recordUsage: the user of the job's row (anonymous when the lookup fails or the
\* row has none; the store keeps no user_id here), then the upsert, whose error is
\* only logged
RecordUsage(w) ==
    /\ wrk[w].pc = "w_usage"
    /\ \/ /\ ~wrk[w].cancelled
          /\ usage' = CreateUsageLog(usage, UsageLog(wrk[w].msg.job_id, "anonymous", wrk[w].run))
          /\ wrk' = [wrk EXCEPT ![w].pc = "w_succeeded", ![w].logged = TRUE,
                                ![w].did = Append(@, "usage")]
       \/ /\ UNCHANGED usage
          /\ wrk' = [wrk EXCEPT ![w].pc = "w_succeeded", ![w].did = Append(@, "usage")]
    /\ UNCHANGED <<jobs, queue, submitted, blobs, files, presigned, limiterOn, standalone, api, sem,
                   deliveries>>

\* dispatchWebhook: nothing without a webhook_url, else one Send, which returns nil
\* at once for a blank endpoint and otherwise has the outcome sent; the deliveries
\* attempted and the error returned
dispatchWebhook(url, event, sent) ==
    IF url = <<>> THEN [events |-> <<>>, err |-> "nil"]
    ELSE IF TrimSpace(url) = <<>> THEN [events |-> <<>>, err |-> "nil"]
    ELSE [events |-> <<[event |-> event, sent |-> sent]>>,
          err |-> IF sent = "failed" THEN "dispatch webhook" ELSE "nil"]

\* The handler's return with a failed pipeline swallowed once the job.failed
\* webhook is delivered
HandlerError_FailureFollowsWebhook(result, hook) ==
    IF result = "error" /\ hook.err # "nil" THEN "run pipeline" ELSE hook.err

\* The handler's return with a failing job.completed webhook only logged
HandlerError_IgnoresWebhook(result, hook) ==
    IF result = "error" THEN "run pipeline" ELSE "nil"

\* The error handleProcessImage returns once dispatchWebhook has answered
HandlerError(result, hook) ==
    IF result = "error" THEN "run pipeline" ELSE hook.err

\* The deferred receive left out
Release_Never(held) == held

\* The deferred <-s.sem
Release(held) == held - 1

\* dispatchWebhook (job.failed or job.completed), then the handler returns and the
\* deferred <-s.sem runs
Finish(w) ==
    /\ wrk[w].pc \in {"w_failed", "w_succeeded"}
    /\ sem' = Release(sem)
    /\ \E sent \in IF wrk[w].cancelled THEN {"failed"} ELSE {"delivered", "failed"} :
          \E hook \in {dispatchWebhook(wrk[w].msg.webhook_url,
                                       IF wrk[w].result = "error" THEN "job.failed"
                                                                  ELSE "job.completed",
                                       sent)} :
             \E err \in {HandlerError(wrk[w].result, hook)} :
                /\ queue' = Requeue(queue, wrk[w].msg, err)
                /\ wrk' = [wrk EXCEPT ![w].pc = "idle", ![w].events = hook.events,
                                      ![w].did = @ \o [i \in 1..Len(hook.events) |->
                                                          hook.events[i].event],
                                      ![w].err = err]
    /\ UNCHANGED <<jobs, submitted, blobs, files, presigned, limiterOn, standalone, api, usage,
                   deliveries>>

\* The context asynq gave the handler is cancelled: the task's 3-minute deadline
\* passed or the server shuts down
CancelDelivery(w) ==
    /\ wrk[w].pc # "idle"
    /\ ~wrk[w].cancelled
    /\ wrk' = [wrk EXCEPT ![w].cancelled = TRUE]
    /\ UNCHANGED <<jobs, queue, submitted, blobs, files, presigned, limiterOn, standalone, api,
                   sem, usage, deliveries>>

----------------------------------------------------------------------------
(* Double-precision arithmetic of the token bucket script                  *)
(*                                                                         *)
(* Lua numbers are IEEE-754 doubles. A natural number is a sequence of     *)
(* limbs, least significant first, without leading zero limbs; a double    *)
(* is m * 2^e with m of exactly MantissaBits bits, or zero. Every          *)
(* operation rounds its exact result to nearest, ties to even.             *)

LimbBits == 12
LimbBase == 4096
MantissaBits == 53

RECURSIVE Pow2(_)
Pow2(k) == IF k = 0 THEN 1 ELSE 2 * Pow2(k - 1)

RECURSIVE Norm(_)
Norm(a) ==
    IF a = <<>> THEN a
    ELSE IF a[Len(a)] = 0 THEN Norm(SubSeq(a, 1, Len(a) - 1)) ELSE a

RECURSIVE FromNat(_)
FromNat(n) == IF n = 0 THEN <<>> ELSE <<n % LimbBase>> \o FromNat(n \div LimbBase)

RECURSIVE ToNat(_)
ToNat(a) == IF a = <<>> THEN 0 ELSE a[1] + LimbBase * ToNat(Tail(a))

Limb(a, i) == IF i <= Len(a) THEN a[i] ELSE 0

RECURSIVE AddC(_, _, _, _)
AddC(a, b, i, c) ==
    IF i > Len(a) /\ i > Len(b) THEN (IF c = 0 THEN <<>> ELSE <<c>>)
    ELSE LET s == Limb(a, i) + Limb(b, i) + c
         IN  <<s % LimbBase>> \o AddC(a, b, i + 1, s \div LimbBase)

BAdd(a, b) == AddC(a, b, 1, 0)

RECURSIVE SubB(_, _, _, _)
SubB(a, b, i, borrow) ==
    IF i > Len(a) THEN <<>>
    ELSE LET d == Limb(a, i) - Limb(b, i) - borrow
         IN  IF d < 0 THEN <<d + LimbBase>> \o SubB(a, b, i + 1, 1)
             ELSE <<d>> \o SubB(a, b, i + 1, 0)

\* a - b for a >= b
BSub(a, b) == Norm(SubB(a, b, 1, 0))

RECURSIVE CmpFrom(_, _, _)
CmpFrom(a, b, i) ==
    IF i = 0 THEN 0
    ELSE IF a[i] > b[i] THEN 1
    ELSE IF a[i] < b[i] THEN -1
    ELSE CmpFrom(a, b, i - 1)

BCmp(a, b) ==
    IF Len(a) > Len(b) THEN 1
    ELSE IF Len(a) < Len(b) THEN -1
    ELSE CmpFrom(a, b, Len(a))

RECURSIVE MulSmallC(_, _, _, _)
MulSmallC(a, m, i, c) ==
    IF i > Len(a) THEN (IF c = 0 THEN <<>> ELSE <<c>>)
    ELSE LET p == a[i] * m + c
         IN  <<p % LimbBase>> \o MulSmallC(a, m, i + 1, p \div LimbBase)

\* a * m for a limb m
BMulSmall(a, m) == IF m = 0 THEN <<>> ELSE MulSmallC(a, m, 1, 0)

ShiftLimb(a) == IF a = <<>> THEN a ELSE <<0>> \o a

RECURSIVE BMul(_, _)
BMul(a, b) ==
    IF b = <<>> THEN <<>>
    ELSE LET upper == ShiftLimb(BMul(a, Tail(b)))
         IN  IF Len(upper) >= 0 THEN BAdd(BMulSmall(a, b[1]), upper) ELSE upper

\* a * 2^k
BShl(a, k) ==
    IF a = <<>> THEN a
    ELSE [i \in 1..(k \div LimbBits) |-> 0] \o BMulSmall(a, Pow2(k % LimbBits))

\* floor(a / 2^k)
BShr(a, k) ==
    LET s == k \div LimbBits
        t == k % LimbBits
        d == SubSeq(a, s + 1, Len(a))
    IN  Norm([i \in 1..Len(d) |->
                (d[i] \div Pow2(t)) + (Limb(d, i + 1) % Pow2(t)) * Pow2(LimbBits - t)])

\* the low k bits of a are zero
LowZero(a, k) ==
    \A i \in 1..Len(a) :
        /\ i <= k \div LimbBits => a[i] = 0
        /\ i = (k \div LimbBits) + 1 => a[i] % Pow2(k % LimbBits) = 0

\* bit i of a, bit 0 the least significant
Bit(a, i) == (Limb(a, (i \div LimbBits) + 1) \div Pow2(i % LimbBits)) % 2

RECURSIVE SmallBitLen(_)
SmallBitLen(n) == IF n = 0 THEN 0 ELSE 1 + SmallBitLen(n \div 2)

BitLen(a) ==
    IF a = <<>> THEN 0 ELSE LimbBits * (Len(a) - 1) + SmallBitLen(a[Len(a)])

\* Long division over bits j..0 of one limb of the dividend: <<q, r>> becomes
\* <<2q + 1, 2r + bit - b>> or <<2q, 2r + bit>>
RECURSIVE DivBits(_, _, _, _)
DivBits(b, qr, limb, j) ==
    IF j < 0 THEN qr
    ELSE LET r2 == BAdd(BAdd(qr[2], qr[2]), FromNat((limb \div Pow2(j)) % 2))
             q2 == BAdd(qr[1], qr[1])
             next == IF BCmp(r2, b) >= 0 THEN <<BAdd(q2, <<1>>), BSub(r2, b)>>
                     ELSE <<q2, r2>>
         IN  IF Len(next[1]) + Len(next[2]) >= 0 THEN DivBits(b, next, limb, j - 1)
             ELSE next

RECURSIVE DivLimbs(_, _, _)
DivLimbs(a, b, i) ==
    IF i > Len(a) THEN <<<<>>, <<>>>>
    ELSE LET upper == DivLimbs(a, b, i + 1)
         IN  IF Len(upper) = 2 THEN DivBits(b, upper, a[i], LimbBits - 1) ELSE upper

\* <<floor(a / b), a mod b>>
BDivMod(a, b) == DivLimbs(a, b, 1)

Zero == [m |-> <<>>, e |-> 0]

\* The double nearest to n * 2^e (plus a positive amount below one unit of n when
\* sticky), ties to even
RoundToDouble(n, e, sticky) ==
    LET len == BitLen(n)
        k == len - MantissaBits
    IN  IF n = <<>> THEN Zero
        ELSE IF k <= 0 THEN [m |-> BShl(n, -k), e |-> e + k]
        ELSE LET q == BShr(n, k)
                 half == Bit(n, k - 1) = 1
                 rest == sticky \/ ~LowZero(n, k - 1)
                 up == half /\ (rest \/ Bit(q, 0) = 1)
                 q2 == IF up THEN BAdd(q, <<1>>) ELSE q
             IN  IF BitLen(q2) > MantissaBits
                 THEN [m |-> BShr(q2, 1), e |-> e + k + 1]
                 ELSE [m |-> q2, e |-> e + k]

\* The double of an integer
FromInt(n) == RoundToDouble(FromNat(n), 0, FALSE)

MinExp(a, b) == IF a.e < b.e THEN a.e ELSE b.e

\* The mantissa of a at exponent e <= a.e
Aligned(a, e) == BShl(a.m, a.e - e)

FCmp(a, b) ==
    IF a.m = <<>> THEN (IF b.m = <<>> THEN 0 ELSE -1)
    ELSE IF b.m = <<>> THEN 1
    ELSE BCmp(Aligned(a, MinExp(a, b)), Aligned(b, MinExp(a, b)))

FAdd(a, b) ==
    IF a.m = <<>> THEN b
    ELSE IF b.m = <<>> THEN a
    ELSE RoundToDouble(BAdd(Aligned(a, MinExp(a, b)), Aligned(b, MinExp(a, b))),
                       MinExp(a, b), FALSE)

\* a - b for a >= b
FSub(a, b) ==
    IF b.m = <<>> THEN a
    ELSE RoundToDouble(BSub(Aligned(a, MinExp(a, b)), Aligned(b, MinExp(a, b))),
                       MinExp(a, b), FALSE)

FMul(a, b) ==
    IF a.m = <<>> \/ b.m = <<>> THEN Zero
    ELSE RoundToDouble(BMul(a.m, b.m), a.e + b.e, FALSE)

\* a / b for b > 0: the quotient to MantissaBits + 3 bits and a sticky bit
FDiv(a, b) ==
    IF a.m = <<>> THEN Zero
    ELSE LET num == BShl(a.m, MantissaBits + 3)
             qr == IF Len(num) > 0 /\ Len(b.m) > 0 THEN BDivMod(num, b.m)
                   ELSE <<<<>>, <<>>>>
         IN  IF Len(qr) = 2
             THEN RoundToDouble(qr[1], a.e - b.e - (MantissaBits + 3), qr[2] # <<>>)
             ELSE Zero

FMin(a, b) == IF FCmp(b, a) < 0 THEN b ELSE a

\* math.floor
Floor(a) ==
    IF a.m = <<>> THEN 0
    ELSE IF a.e >= 0 THEN ToNat(BShl(a.m, a.e))
    ELSE ToNat(BShr(a.m, -a.e))

\* math.ceil
Ceil(a) ==
    IF a.m = <<>> \/ a.e >= 0 \/ LowZero(a.m, -a.e) THEN Floor(a) ELSE Floor(a) + 1

----------------------------------------------------------------------------
(* Rate limiter: RedisTokenBucket *)

\* <<capacity, window in ms>> of the buckets examined
Configs == {<<1, 49>>, <<3, 2>>, <<3, 1000>>, <<6, 6000>>}

NoDecision == [err |-> FALSE, allowed |-> FALSE, remaining |-> 0, retry_after_ms |-> 0,
               made |-> FALSE]

\* Allow's results: Decision{} with an error, or the parsed reply of the script
ErrorDecision == [NoDecision EXCEPT !.err = TRUE, !.made = TRUE]
ReplyDecision(reply) ==
    [err |-> FALSE, allowed |-> reply[1] = 1, remaining |-> reply[2],
     retry_after_ms |-> reply[3], made |-> TRUE]

\* What the middleware did with a request: whether it consulted the limiter,
\* with which subject, the decision, and the decision of a limiter that serves
\* this subject and route only
NoRequest ==
    [method |-> "", path |-> <<>>, header |-> <<>>, consulted |-> 0, subject |-> <<>>,
     decision |-> NoDecision, alone |-> NoDecision]

\* No limiter constructed
NoBucket ==
    [capacity |-> 0, window_ms |-> 0, refill_per_ms |-> Zero, ttl_ms |-> 0,
     stored |-> FALSE, tokens |-> Zero, timestamp |-> 0, now |-> 0, ticks |-> 0,
     calls |-> 0, first |-> 0, prev |-> 0, reported |-> 0, lag |-> 0, last |-> NoDecision,
     allowed |-> 0, lo |-> 0, hi |-> 0, revived |-> FALSE,
     hashes |-> <<>>, alone |-> <<>>, served |-> 0, request |-> NoRequest]

\* NewRedisTokenBucket with a time to live of half a window
NewRedisTokenBucket_ShortTTL(capacity, window_ms) ==
    [NoBucket EXCEPT !.capacity = capacity,
                     !.window_ms = window_ms,
                     !.refill_per_ms = FDiv(FromInt(capacity), FromInt(window_ms)),
                     !.ttl_ms = window_ms \div 2]

\* NewRedisTokenBucket for a positive capacity and a window of at least 1 ms; the
\* key has no hash yet
NewRedisTokenBucket(capacity, window_ms) ==
    [NoBucket EXCEPT !.capacity = capacity,
                     !.window_ms = window_ms,
                     !.refill_per_ms = FDiv(FromInt(capacity), FromInt(window_ms)),
                     !.ttl_ms = 2 * window_ms]

\* The key still has its hash: PEXPIRE removes it ttl_ms after the last call
Stored(b) == b.stored /\ b.now - b.timestamp < b.ttl_ms

\* tokens = math.min(capacity, tokens + (elapsed * refill_per_ms))
Refill_IgnoresWindow(tokens, elapsed, refill_per_ms, capacity) ==
    FMin(FromInt(capacity), FAdd(tokens, FMul(FromInt(elapsed), FromInt(capacity))))

Refill(tokens, elapsed, refill_per_ms, capacity) ==
    FMin(FromInt(capacity), FAdd(tokens, FMul(FromInt(elapsed), refill_per_ms)))

\* retry_after_ms = math.ceil((requested - tokens) / refill_per_ms)
RetryAfterMS_RoundsDown(requested, tokens, refill_per_ms) ==
    Floor(FDiv(FSub(FromInt(requested), tokens), refill_per_ms))

RetryAfterMS(requested, tokens, refill_per_ms) ==
    Ceil(FDiv(FSub(FromInt(requested), tokens), refill_per_ms))

\* elapsed = math.max(0, now_ms - timestamp)
Elapsed_Absolute(now_ms, timestamp) ==
    IF now_ms - timestamp > 0 THEN now_ms - timestamp ELSE timestamp - now_ms

Elapsed(now_ms, timestamp) ==
    IF now_ms - timestamp > 0 THEN now_ms - timestamp ELSE 0

\* The Lua script: the hash it writes and the reply {allowed, floor(tokens),
\* retry_after_ms}
Script(b, now_ms, requested) ==
    LET tokens0 == IF Stored(b) THEN b.tokens ELSE FromInt(b.capacity)
        timestamp == IF Stored(b) THEN b.timestamp ELSE now_ms
        elapsed == Elapsed(now_ms, timestamp)
        tokens == Refill(tokens0, elapsed, b.refill_per_ms, b.capacity)
        allowed == FCmp(tokens, FromInt(requested)) >= 0
        left == IF allowed THEN FSub(tokens, FromInt(requested)) ELSE tokens
        retry_after_ms == IF allowed THEN 0
                          ELSE RetryAfterMS(requested, tokens, b.refill_per_ms)
    IN  [tokens |-> left, timestamp |-> now_ms,
         reply |-> <<IF allowed THEN 1 ELSE 0, Floor(left), retry_after_ms>>]

\* RedisTokenBucket.Allow: one token requested at the current time; a failing
\* script run returns an error and leaves the key alone. revived says that the
\* call found the key expired
Allow ==
    /\ bucket.capacity > 0
    /\ bucket.calls < bucket.capacity + 1 + ExtraCalls
    /\ \/ bucket' = [bucket EXCEPT !.last = ErrorDecision]
       \/ \E out \in {Script(bucket, bucket.now, 1)}, fresh \in {~Stored(bucket)} :
              bucket' = [bucket EXCEPT
                            !.stored = TRUE,
                            !.tokens = out.tokens,
                            !.timestamp = out.timestamp,
                            !.calls = IF fresh THEN 1 ELSE @ + 1,
                            !.first = IF fresh THEN bucket.now ELSE @,
                            !.prev = IF fresh THEN bucket.capacity ELSE bucket.reported,
                            !.reported = out.reply[2],
                            !.lag = IF fresh THEN 0 ELSE bucket.now - bucket.timestamp,
                            !.revived = bucket.stored /\ fresh,
                            !.last = ReplyDecision(out.reply)]
    /\ UNCHANGED <<jobs, queue, submitted, blobs, files, presigned, limiterOn, api, wrk,
                   sem, usage, deliveries, webhook, proc, meter, stages>>

\* RedisTokenBucket.Allow on API replicas that share the key: each call carries
\* the now_ms of its replica's clock, which runs up to MaxSkew ms ahead of the
\* slowest replica's. The calls made, those allowed and the smallest and largest
\* now_ms are counted
AllowOnReplica ==
    /\ bucket.capacity > 0
    /\ bucket.calls < MaxReplicaCalls
    /\ \E skew \in 0..MaxSkew :
          \E now_ms \in {bucket.now + skew} :
             \/ bucket' = [bucket EXCEPT !.last = ErrorDecision]
             \/ \E out \in {Script(bucket, now_ms, 1)} :
                    bucket' = [bucket EXCEPT
                                  !.stored = TRUE,
                                  !.tokens = out.tokens,
                                  !.timestamp = out.timestamp,
                                  !.calls = @ + 1,
                                  !.allowed = IF out.reply[1] = 1 THEN @ + 1 ELSE @,
                                  !.lo = IF bucket.calls = 0 \/ now_ms < @ THEN now_ms ELSE @,
                                  !.hi = IF bucket.calls = 0 \/ now_ms > @ THEN now_ms ELSE @,
                                  !.last = ReplyDecision(out.reply)]
    /\ UNCHANGED <<jobs, queue, submitted, blobs, files, presigned, limiterOn, api, wrk,
                   sem, usage, deliveries, webhook, proc, meter, stages>>

\* Request paths and the labels of routeLabel
PathJobs == <<"/","v","1","/","j","o","b","s">>
PathJobsSlash == <<"/","v","1","/","j","o","b","s","/">>
SuffixStart == <<"/","s","t","a","r","t">>
LabelStart == <<"/","v","1","/","j","o","b","s","/","{","i","d","}","/","s","t","a","r","t">>
PathStart == <<"/","v","1","/","j","o","b","s","/","j","1","/","s","t","a","r","t">>
PathStop == <<"/","v","1","/","j","o","b","s","/","j","1","/","s","t","o","p">>
PathHealthz == <<"/","h","e","a","l","t","h","z">>
Anonymous == <<"a","n","o","n","y","m","o","u","s">>

HasPrefix(str, prefix) ==
    Len(str) >= Len(prefix) /\ SubSeq(str, 1, Len(prefix)) = prefix

HasSuffix(str, suffix) ==
    Len(str) >= Len(suffix) /\ SubSeq(str, Len(str) - Len(suffix) + 1, Len(str)) = suffix

\* routeLabel on the paths under /v1/jobs and /healthz
routeLabel(path) ==
    IF HasPrefix(path, PathJobsSlash) /\ HasSuffix(path, SuffixStart) THEN LabelStart
    ELSE IF HasPrefix(path, PathJobs) THEN PathJobs
    ELSE path

\* shouldRateLimit on the method and the raw path
shouldRateLimitRequest(method, path) ==
    IF method = "GET" THEN FALSE ELSE HasPrefix(path, PathJobs)

\* The subject of withRateLimit without the route
rateLimitSubject_IgnoresRoute(header, path) ==
    IF TrimSpace(header) = <<>> THEN Anonymous ELSE TrimSpace(header)

\* withRateLimit: the trimmed user id header, or "anonymous", then ":" and the
\* route label
rateLimitSubject(header, path) ==
    (IF TrimSpace(header) = <<>> THEN Anonymous ELSE TrimSpace(header))
        \o <<":">> \o routeLabel(path)

\* RedisTokenBucket.Allow: the key's name after the prefix
RedisKey(subject) == IF TrimSpace(subject) = <<>> THEN Anonymous ELSE TrimSpace(subject)

\* The limiter as the script finds it under a key of the store
UnderKey(b, store, key) ==
    IF key \in DOMAIN store
    THEN [b EXCEPT !.stored = TRUE, !.tokens = store[key].tokens,
                   !.timestamp = store[key].timestamp]
    ELSE [b EXCEPT !.stored = FALSE]

\* HMSET key tokens timestamp
WriteKey(store, key, out) ==
    [k \in DOMAIN store \cup {key} |->
        IF k = key THEN [tokens |-> out.tokens, timestamp |-> out.timestamp] ELSE store[k]]

\* Requests by method and path: a GET under /v1/jobs, create, start, another
\* path under /v1/jobs, and a path elsewhere
Calls ==
    {<<"GET", PathStart>>, <<"POST", PathJobs>>, <<"POST", PathStart>>,
     <<"POST", PathStop>>, <<"POST", PathHealthz>>}

\* X-User-ID headers: absent, a user with white space around the id, and one
\* that spells the word anonymous
UserHeaders == {<<>>, <<" ", "a">>, Anonymous}

\* withRateLimit with a limiter: a request that is not limited passes; for a
\* limited one Allow is called once with the subject, and its error lets the
\* request pass. alone is the store of a limiter per user and route, each of
\* which sees that user's requests to that route only
RateLimit ==
    /\ bucket.capacity > 0
    /\ bucket.served < MaxLimited
    /\ \E call \in Calls, header \in UserHeaders, failed \in BOOLEAN :
          \E method \in {call[1]}, path \in {call[2]},
             arrived \in {[NoRequest EXCEPT !.method = call[1], !.path = call[2],
                                            !.header = header]} :
             IF ~shouldRateLimitRequest(method, path)
             THEN /\ ~failed
                  /\ bucket' = [bucket EXCEPT !.served = @ + 1, !.request = arrived]
             ELSE \E subject \in {rateLimitSubject(header, path)} :
                  \E key \in {RedisKey(subject)},
                     pair \in {<<RedisKey(header), routeLabel(path)>>} :
                     IF failed
                     THEN bucket' = [bucket EXCEPT
                                        !.served = @ + 1,
                                        !.request = [arrived EXCEPT
                                                        !.consulted = 1,
                                                        !.subject = subject,
                                                        !.decision = ErrorDecision,
                                                        !.alone = ErrorDecision]]
                     ELSE \E out \in {Script(UnderKey(bucket, bucket.hashes, key),
                                             bucket.now, 1)},
                             solo \in {Script(UnderKey(bucket, bucket.alone, pair),
                                              bucket.now, 1)} :
                             bucket' = [bucket EXCEPT
                                           !.served = @ + 1,
                                           !.hashes = WriteKey(@, key, out),
                                           !.alone = WriteKey(@, pair, solo),
                                           !.request = [arrived EXCEPT
                                                           !.consulted = 1,
                                                           !.subject = subject,
                                                           !.decision = ReplyDecision(out.reply),
                                                           !.alone = ReplyDecision(solo.reply)]]
    /\ UNCHANGED <<jobs, queue, submitted, blobs, files, presigned, limiterOn, api, wrk,
                   sem, usage, deliveries, webhook, proc, meter, stages>>

\* ceil(a / b) for positive integers
CeilDiv(a, b) == (a + b - 1) \div b

\* Time passes: a millisecond, a refill interval, or the key's time to live
TickSteps(b) == {1, CeilDiv(b.window_ms, b.capacity), b.ttl_ms}

Tick ==
    /\ bucket.capacity > 0
    /\ bucket.ticks < MaxTicks
    /\ \E d \in TickSteps(bucket) :
          bucket' = [bucket EXCEPT !.now = @ + d, !.ticks = @ + 1,
                                   !.last = [@ EXCEPT !.made = FALSE]]
    /\ UNCHANGED <<jobs, queue, submitted, blobs, files, presigned, limiterOn, api, wrk,
                   sem, usage, deliveries, webhook, proc, meter, stages>>

----------------------------------------------------------------------------
(* Webhook emitter: webhook.Client *)

HeaderSignature == "X-Pixelflow-Signature"
HeaderTimestamp == "X-Pixelflow-Timestamp"
HeaderEvent == "X-Pixelflow-Event"

Digits == <<"0","1","2","3","4","5","6","7","8","9">>

RECURSIVE FormatNat(_)
FormatNat(n) == IF n < 10 THEN <<Digits[n + 1]>> ELSE Append(FormatNat(n \div 10), Digits[(n % 10) + 1])

\* strconv.FormatInt(n, 10)
FormatInt(n) == IF n < 0 THEN <<"-">> \o FormatNat(-n) ELSE FormatNat(n)

\* HMAC-SHA256 and hex encoding are kept as terms: the MAC of a key and a message
\* is the pair of them, and two MACs are equal when key and message are
HmacSha256(key, message) == [mac |-> "hmac_sha256", key |-> key, message |-> message]
HexEncodeToString(sum) == [hex |-> sum]

\* sign with the MAC taken over the body alone
sign_BodyOnly(secret, timestamp, body) ==
    <<"sha256=", HexEncodeToString(HmacSha256(secret, body))>>

\* Client.sign: "sha256=" + hex(hmac_sha256(secret, timestamp + "." + body))
sign(secret, timestamp, body) ==
    <<"sha256=", HexEncodeToString(HmacSha256(secret, timestamp \o <<".">> \o body))>>

\* json.Marshal of an event payload (a map, keys in sorted order)
Marshal(payload) ==
    <<"{", "\"job_id\":", payload.job_id, ",", "\"status\":", payload.status, "}">>

\* The payloads the worker sends; all of them encode
Payloads ==
    { [job_id |-> "j1", status |-> JobStatusSucceeded],
      [job_id |-> "j1", status |-> JobStatusFailed] }

Events == {"job.completed", "job.failed"}

\* Endpoints: webhook_url is whatever the client of create_job sent
Endpoints == { <<>>, <<" ", "\t">>, <<"h">>, <<" ", "h", "\n">>, <<":", "h">> }

\* Unix times of the call
Times == {0, 1730729000}

\* webhook.Config values: attempts, backoffs in milliseconds
HookConfigs ==
    [max_attempts : 0..MaxConfiguredAttempts, initial_backoff : {0, 10},
     max_backoff : {0, 15, 40}, secret : {<<"k">>}]

\* http.NewRequestWithContext fails when the endpoint does not parse as a URL: a
\* colon in front of any scheme
Malformed(endpoint) == Len(endpoint) > 0 /\ endpoint[1] = ":"

\* What httpClient.Do answers: a response with a status, a transport error, or
\* neither error nor response
Response(kind, status) == [kind |-> kind, status |-> status]
Responses ==
    {Response("status", c) : c \in {199, 200, 299, 300}}
        \cup {Response("error", 0), Response("nil", 0)}

\* resp.StatusCode < 300 as the only test of success
Success_AnyStatusBelow300(resp) == resp.kind = "status" /\ resp.status < 300

\* err == nil && resp != nil && resp.StatusCode >= 200 && resp.StatusCode < 300
Success(resp) == resp.kind = "status" /\ resp.status >= 200 /\ resp.status < 300

\* classifyWebhookError
classifyWebhookError(resp) ==
    IF resp.kind = "error" THEN "transport error"
    ELSE IF resp.kind = "nil" THEN "webhook request failed: no response"
    ELSE "webhook returned status"

\* The doubled backoff left above the maximum
minDuration_Unclamped(a, b) == a

minDuration(a, b) == IF a < b THEN a ELSE b

NoHook ==
    [max_attempts |-> 0, initial_backoff |-> 0, max_backoff |-> 0, secret |-> <<>>,
     pc |-> "none", endpoint |-> <<>>, event |-> "", body |-> <<>>, timestamp |-> <<>>,
     signature |-> <<>>, attempt |-> 0, backoff |-> 0, slept |-> <<>>, posts |-> <<>>,
     responses |-> <<>>, cancelled |-> FALSE, lastErr |-> "none", err |-> "none"]

\* NewClient: at least one attempt, a positive initial backoff, a maximum backoff
\* not below the initial one
NewClient(cfg) ==
    LET initialBackoff == IF cfg.initial_backoff <= 0 THEN 1000 ELSE cfg.initial_backoff
    IN  [NoHook EXCEPT
            !.pc = "idle",
            !.max_attempts = IF cfg.max_attempts < 1 THEN 1 ELSE cfg.max_attempts,
            !.initial_backoff = initialBackoff,
            !.max_backoff = IF cfg.max_backoff < initialBackoff THEN initialBackoff
                                                                ELSE cfg.max_backoff,
            !.secret = cfg.secret]

\* The request of an attempt stamped and signed anew, at a clock that has moved on
\* by the number of the attempt
Request_Refreshed(h) ==
    [method |-> "POST", url |-> h.endpoint, body |-> h.body,
     header |-> [n \in {HeaderTimestamp, HeaderSignature, HeaderEvent} |->
                    IF n = HeaderTimestamp THEN FormatInt(h.attempt)
                    ELSE IF n = HeaderSignature
                         THEN sign(h.secret, FormatInt(h.attempt), h.body)
                    ELSE h.event]]

\* The POST request of one attempt
Request(h) ==
    [method |-> "POST", url |-> h.endpoint, body |-> h.body,
     header |-> [n \in {HeaderTimestamp, HeaderSignature, HeaderEvent} |->
                    IF n = HeaderTimestamp THEN h.timestamp
                    ELSE IF n = HeaderSignature THEN h.signature
                    ELSE h.event]]

\* Send up to the loop: the endpoint is trimmed and a blank one ends the call;
\* the body, the timestamp and the signature are fixed for all attempts
Send_Begin ==
    /\ webhook.pc = "idle"
    /\ \E endpoint \in Endpoints, event \in Events, payload \in Payloads, now \in Times :
          webhook' = IF TrimSpace(endpoint) = <<>>
                  THEN [webhook EXCEPT !.pc = "done", !.event = event, !.err = "nil"]
                  ELSE LET body == Marshal(payload)
                           timestamp == FormatInt(now)
                       IN  [webhook EXCEPT !.pc = "loop", !.endpoint = TrimSpace(endpoint),
                                        !.event = event, !.body = body,
                                        !.timestamp = timestamp,
                                        !.signature = sign(webhook.secret, timestamp, body),
                                        !.backoff = webhook.initial_backoff, !.attempt = 1]
    /\ UNCHANGED <<jobs, queue, submitted, blobs, files, presigned, limiterOn, api, wrk,
                   sem, usage, deliveries, bucket, proc, meter, stages>>

\* The loop without its look at the context
ctxErr_Unchecked(cancelled) == "nil"

\* ctx.Err() at the top of the loop
ctxErr(cancelled) == IF cancelled THEN "context canceled" ELSE "nil"

\* One pass of the loop up to the wait: the context check, the request, the
\* response and its classification
Send_Attempt ==
    /\ webhook.pc = "loop"
    /\ \/ /\ ctxErr(webhook.cancelled) # "nil"
          /\ webhook' = [webhook EXCEPT !.pc = "done", !.err = ctxErr(webhook.cancelled)]
       \/ /\ ctxErr(webhook.cancelled) = "nil"
          /\ Malformed(webhook.endpoint)
          /\ webhook' = [webhook EXCEPT !.pc = "done", !.err = "build webhook request"]
       \/ /\ ctxErr(webhook.cancelled) = "nil"
          /\ ~Malformed(webhook.endpoint)
          /\ \E resp \in Responses :
                webhook' = LET sent == [webhook EXCEPT !.posts = Append(@, Request(webhook)),
                                                 !.responses = Append(@, resp)]
                        IN  IF Success(resp)
                            THEN [sent EXCEPT !.pc = "done", !.err = "nil"]
                            ELSE IF webhook.attempt = webhook.max_attempts
                            THEN [sent EXCEPT !.pc = "done",
                                              !.lastErr = classifyWebhookError(resp),
                                              !.err = "webhook delivery failed"]
                            ELSE [sent EXCEPT !.pc = "wait",
                                              !.lastErr = classifyWebhookError(resp)]
    /\ UNCHANGED <<jobs, queue, submitted, blobs, files, presigned, limiterOn, api, wrk,
                   sem, usage, deliveries, bucket, proc, meter, stages>>

\* select between ctx.Done() and time.After(backoff), then the backoff doubles up
\* to its maximum; with both ready either branch may be taken
Send_Wait ==
    /\ webhook.pc = "wait"
    /\ \/ /\ webhook.cancelled
          /\ webhook' = [webhook EXCEPT !.pc = "done", !.err = "context canceled"]
       \/ webhook' = [webhook EXCEPT !.pc = "loop", !.attempt = @ + 1,
                               !.slept = Append(@, webhook.backoff),
                               !.backoff = minDuration(webhook.backoff * 2, webhook.max_backoff)]
    /\ UNCHANGED <<jobs, queue, submitted, blobs, files, presigned, limiterOn, api, wrk,
                   sem, usage, deliveries, bucket, proc, meter, stages>>

\* The caller's context is cancelled, before Send is called or while it runs
Cancel ==
    /\ webhook.pc \in {"idle", "loop", "wait"}
    /\ ~webhook.cancelled
    /\ webhook' = [webhook EXCEPT !.cancelled = TRUE]
    /\ UNCHANGED <<jobs, queue, submitted, blobs, files, presigned, limiterOn, api, wrk,
                   sem, usage, deliveries, bucket, proc, meter, stages>>

----------------------------------------------------------------------------
(* Image pipeline: pipeline.Processor *)

\* pipeline.Output as an emitter returns it
Output(step) == [step_id |-> step.id, action |-> step.action, success |-> TRUE]

StepIds == {<<"a">>, <<"b">>, <<" ">>}

\* Pipelines of up to MaxSteps steps
Pipelines ==
    UNION {[1..n -> {Step(id, <<"r">>) : id \in StepIds}] : n \in 0..MaxSteps}

\* Request.SourceType values
SourceTypes ==
    {SourceTypeLocalFile, <<"L","o","c","a","l","_","F","I","L","E">>, SourceTypeS3Presigned}

\* pipeline.Request values: job id, source type and pipeline
Requests == [job_id : {<<"j">>, <<" ">>}, source_type : SourceTypes, pipeline : Pipelines]

\* The processors the worker builds: NewLocalProcessor (LocalFileFetcher) and
\* NewObjectStoreProcessor (ObjectStoreFetcher)
Variants == {"local", "object_store"}

IdleProcess ==
    [variant |-> "none", pc |-> "idle", job_id |-> <<>>, source_type |-> <<>>,
     pipeline |-> <<>>, i |-> 0, cancelled |-> FALSE, outputs |-> <<>>, calls |-> <<>>,
     written |-> {}, result |-> <<>>, err |-> "none", cause |-> "none",
     fetches |-> 0, fetched |-> "none", sourceBytes |-> "none", seen |-> <<>>]

\* The source images a fetcher can return
Sources == {"photo", "logo"}

\* The source buffer after a Transform that decodes into it
Reader_Consumes(input) == "decoded"

\* image.Decode(bytes.NewReader(input)): Transform reads the source through a
\* reader and leaves the buffer as it was
Reader(input) == input

\* strings.EqualFold on ASCII letters
EqualFold(a, b) == ToLower(a) = ToLower(b)

\* Fetch without a look at the source type
Fetch_AnySourceType(variant, sourceType, read) ==
    IF read THEN "nil" ELSE "read source"

\* LocalFileFetcher.Fetch and ObjectStoreFetcher.Fetch: nil when the source was
\* read, else the error; read says whether reading the file or object succeeds
Fetch(variant, sourceType, read) ==
    IF variant = "local" /\ ~EqualFold(sourceType, SourceTypeLocalFile)
    THEN "unsupported source_type"
    ELSE IF variant = "object_store" /\ EqualFold(sourceType, SourceTypeLocalFile)
    THEN "unsupported source_type"
    ELSE IF read THEN "nil" ELSE "read source"

\* A stage call on step i of the pipeline
Call(stage, i) == [stage |-> stage, step |-> i]

\* A failing Process that hands back the outputs gathered so far
Failure_KeepsOutputs(p, err) == [p EXCEPT !.pc = "done", !.result = p.outputs, !.err = err]

\* return Result{}, err
Failure(p, err) == [p EXCEPT !.pc = "done", !.result = <<>>, !.err = err]

\* Outputs gathered newest first
Gather_Prepends(outputs, written) == <<written>> \o outputs

\* out.Outputs = append(out.Outputs, written)
Gather(outputs, written) == Append(outputs, written)

\* Process up to the loop: the request is checked and the source fetched
Process_Begin ==
    /\ proc.pc = "idle"
    /\ \E req \in Requests, read \in BOOLEAN, source \in Sources :
          proc' = LET p == [proc EXCEPT !.job_id = req.job_id, !.pipeline = req.pipeline,
                                        !.source_type = req.source_type]
                      fetched == Fetch(proc.variant, req.source_type, read)
                      f == [p EXCEPT !.fetches = @ + 1]
                  IN  IF TrimSpace(req.job_id) = <<>> THEN Failure(p, "job_id is required")
                      ELSE IF Len(req.pipeline) = 0
                           THEN Failure(p, "pipeline must contain at least one step")
                      ELSE IF fetched # "nil"
                           THEN Failure([f EXCEPT !.cause = fetched], "fetch stage")
                      ELSE [f EXCEPT !.pc = "transform", !.i = 1, !.fetched = source,
                                     !.sourceBytes = source]
    /\ UNCHANGED <<jobs, queue, submitted, blobs, files, presigned, limiterOn, api, wrk,
                   sem, usage, deliveries, bucket, webhook, meter, stages>>

\* The head of one pass of the loop: the context check and Transform
Process_Transform ==
    /\ proc.pc = "transform"
    /\ \/ /\ proc.cancelled
          /\ proc' = Failure(proc, "context canceled")
       \/ /\ ~proc.cancelled
          /\ \E transformed \in BOOLEAN :
                proc' = LET p == [proc EXCEPT !.calls = Append(@, Call("transform", proc.i)),
                                              !.seen = Append(@, proc.sourceBytes),
                                              !.sourceBytes = Reader(@)]
                        IN  IF transformed THEN [p EXCEPT !.pc = "emit"]
                            ELSE Failure(p, "transform stage")
    /\ UNCHANGED <<jobs, queue, submitted, blobs, files, presigned, limiterOn, api, wrk,
                   sem, usage, deliveries, bucket, webhook, meter, stages>>

\* The rest of the pass: Emit (which refuses a blank step id and may fail to
\* write), the output is gathered, and after the last step Process returns
Process_Emit ==
    /\ proc.pc = "emit"
    /\ \E stored \in BOOLEAN :
          proc' = LET step == proc.pipeline[proc.i]
                      p == [proc EXCEPT !.calls = Append(@, Call("emit", proc.i))]
                  IN  IF TrimSpace(step.id) = <<>> \/ ~stored THEN Failure(p, "emit stage")
                      ELSE LET q == [p EXCEPT !.outputs = Gather(@, Output(step)),
                                              !.written = @ \cup {step.id}]
                           IN  IF proc.i = Len(proc.pipeline)
                               THEN [q EXCEPT !.pc = "done", !.result = q.outputs, !.err = "nil"]
                               ELSE [q EXCEPT !.pc = "transform", !.i = @ + 1]
    /\ UNCHANGED <<jobs, queue, submitted, blobs, files, presigned, limiterOn, api, wrk,
                   sem, usage, deliveries, bucket, webhook, meter, stages>>

\* The caller's context is cancelled while Process runs
Process_Cancel ==
    /\ proc.pc \in {"transform", "emit"}
    /\ ~proc.cancelled
    /\ proc' = [proc EXCEPT !.cancelled = TRUE]
    /\ UNCHANGED <<jobs, queue, submitted, blobs, files, presigned, limiterOn, api, wrk,
                   sem, usage, deliveries, bucket, webhook, meter, stages>>

----------------------------------------------------------------------------
(* Stage helpers: sanitizePathToken, normalizeOutputFormat, formatForStep *)

\* The characters sanitizePathToken writes through
PathChars ==
    {UpperLetters[i] : i \in 1..26} \cup {LowerLetters[i] : i \in 1..26}
        \cup {Digits[i] : i \in 1..10} \cup {"-", "_"}

Unknown == <<"u","n","k","n","o","w","n">>

\* Characters of the tokens tried: allowed ones, white space and separators
TokenChars == {"a", "Z", "7", "-", "_", " ", "\t", "/"}

\* Job ids and step ids of up to MaxToken characters, and the word unknown
Tokens == UNION {[1..n -> TokenChars] : n \in 0..MaxToken} \cup {Unknown}

\* sanitizePathToken that replaces nothing
sanitizePathToken_KeepsAll(in) ==
    LET t == TrimSpace(in) IN IF t = <<>> THEN Unknown ELSE t

\* sanitizePathToken: the token is trimmed, a blank one becomes "unknown", and
\* every rune that is not a letter, a digit, '-' or '_' becomes '_'
sanitizePathToken(in) ==
    LET t == TrimSpace(in)
    IN  IF t = <<>> THEN Unknown
        ELSE [i \in 1..Len(t) |-> IF t[i] \in PathChars THEN t[i] ELSE "_"]

Jpg == <<"j","p","g">>
Jpeg == <<"j","p","e","g">>
Png == <<"p","n","g">>
Webp == <<"w","e","b","p">>
Gif == <<"g","i","f">>

\* normalizeOutputFormat
normalizeOutputFormat(format) ==
    IF format = Jpg THEN Jpeg
    ELSE IF format \in {Jpeg, Png, Webp} THEN format
    ELSE Png

\* PipelineStep.Format values: blank, the known names, another case, an unknown
\* name
StepFormats == {<<>>, <<" ">>, Jpg, Jpeg, Png, Webp, <<"J","P","G">>, <<" ">> \o Png, Gif}

\* What the decoder finds in the source: image.Decode's format name, or
\* vips.DetermineImageType; "unknown" is a source that is no image
Detected == {Jpeg, Png, Webp, Gif, Unknown}

\* The transformers newTransformer can build
Transformers == {"stdlib", "govips"}

\* stdlibTransformer.Transform, lines 98-101: the output format
stdlibFormat(stepFormat, srcFormat) ==
    IF TrimSpace(stepFormat) = <<>> THEN normalizeOutputFormat(ToLower(srcFormat))
    ELSE normalizeOutputFormat(ToLower(TrimSpace(stepFormat)))

\* formatForStep of the govips transformer
formatForStep(stepFormat, detected) ==
    IF TrimSpace(stepFormat) # <<>>
    THEN normalizeOutputFormat(ToLower(TrimSpace(stepFormat)))
    ELSE IF detected = Jpeg THEN Jpeg
    ELSE IF detected = Webp THEN Webp
    ELSE Png

NoStage ==
    [pc |-> "none", in |-> <<>>, out |-> <<>>, again |-> <<>>, transformer |-> "none",
     step_format |-> <<>>, detected |-> <<>>, format |-> <<>>, err |-> "none"]

\* An emitter sanitizes a job id or step id
Sanitize ==
    /\ stages.pc = "token"
    /\ stages' = [stages EXCEPT !.pc = "sanitized", !.out = sanitizePathToken(stages.in)]
    /\ UNCHANGED <<jobs, queue, submitted, blobs, files, presigned, limiterOn, api, wrk,
                   sem, usage, deliveries, bucket, webhook, proc, meter>>

\* The sanitized token is sanitized once more
SanitizeAgain ==
    /\ stages.pc = "sanitized"
    /\ stages' = [stages EXCEPT !.pc = "done", !.again = sanitizePathToken(stages.out)]
    /\ UNCHANGED <<jobs, queue, submitted, blobs, files, presigned, limiterOn, api, wrk,
                   sem, usage, deliveries, bucket, webhook, proc, meter>>

\* Transform decodes the source and settles the output format; the stdlib
\* transformer fails on a source that image.Decode does not recognise (only
\* jpeg, png and webp decoders are registered)
TransformFormat ==
    /\ stages.pc = "step"
    /\ stages' =
          IF stages.transformer = "stdlib"
          THEN IF stages.detected \in {Jpeg, Png, Webp}
               THEN [stages EXCEPT !.pc = "done", !.err = "nil",
                                  !.format = stdlibFormat(stages.step_format, stages.detected)]
               ELSE [stages EXCEPT !.pc = "done", !.err = "decode source image"]
          ELSE [stages EXCEPT !.pc = "done", !.err = "nil",
                             !.format = formatForStep(stages.step_format, stages.detected)]
    /\ UNCHANGED <<jobs, queue, submitted, blobs, files, presigned, limiterOn, api, wrk,
                   sem, usage, deliveries, bucket, webhook, proc, meter>>

----------------------------------------------------------------------------
(* Usage metering: Server.recordUsage *)

\* The pipeline.Output values recordUsage reads: width and height in pixels, bytes
\* written
OutputSizes ==
    {[width |-> 5, height |-> 5, bytes |-> 200], [width |-> 4, height |-> 3, bytes |-> 30],
     [width |-> 0, height |-> 0, bytes |-> 0]}

\* pipeline.Result: the size of the source and the outputs of the steps
Results ==
    [source_bytes : {0, 100, 300},
     outputs : UNION {[1..n -> OutputSizes] : n \in 0..MaxOutputs}]

\* time.Since(startedAt) in nanoseconds: the handler's clock is monotonic
Durations == {0, 1, 999999, 1000000, 1500000, 2000000, 2000001, 61000000}

\* time.Duration.Milliseconds: the whole milliseconds of d
Milliseconds(d) == d \div 1000000

\* The loop over result.Outputs from output i on: pixelsProcessed and
\* totalOutputBytes when it ends
RECURSIVE Totals(_, _, _, _)
Totals(outputs, i, pixelsProcessed, totalOutputBytes) ==
    IF i > Len(outputs) THEN [pixels |-> pixelsProcessed, bytes |-> totalOutputBytes]
    ELSE Totals(outputs, i + 1, pixelsProcessed + outputs[i].width * outputs[i].height,
                totalOutputBytes + outputs[i].bytes)

\* bytesSaved left negative
BytesSaved_Signed(sourceBytes, totalOutputBytes) == sourceBytes - totalOutputBytes

\* bytesSaved := int64(result.SourceBytes - totalOutputBytes), 0 when negative
BytesSaved(sourceBytes, totalOutputBytes) ==
    IF sourceBytes - totalOutputBytes < 0 THEN 0 ELSE sourceBytes - totalOutputBytes

\* computeTimeMS := computeDuration.Milliseconds(), 1 when less than 1
ComputeTimeMS(computeDuration) ==
    IF Milliseconds(computeDuration) < 1 THEN 1 ELSE Milliseconds(computeDuration)

\* The domain.UsageLog recordUsage builds (user, job and created_at left out)
MeteredUsage(result, computeDuration) ==
    LET totals == Totals(result.outputs, 1, 0, 0)
    IN  [pixels_processed |-> totals.pixels,
         bytes_saved |-> BytesSaved(result.source_bytes, totals.bytes),
         compute_time_ms |-> ComputeTimeMS(computeDuration)]

\* recordUsage not called
NoMeter ==
    [pc |-> "idle", result |-> [source_bytes |-> 0, outputs |-> <<>>], duration |-> 0,
     row |-> [pixels_processed |-> 0, bytes_saved |-> 0, compute_time_ms |-> 0]]

\* s.recordUsage(ctx, payload.JobID, result, time.Since(startedAt))
Meter ==
    /\ meter.pc = "idle"
    /\ \E result \in Results, computeDuration \in Durations :
          meter' = [pc |-> "done", result |-> result, duration |-> computeDuration,
                    row |-> MeteredUsage(result, computeDuration)]
    /\ UNCHANGED <<jobs, queue, submitted, blobs, files, presigned, limiterOn, api, wrk,
                   sem, usage, deliveries, bucket, webhook, proc, stages>>

----------------------------------------------------------------------------
(* The system *)

InitApi ==
    /\ jobs = [j \in JobIds |-> NoJob]
    /\ queue = {}
    /\ submitted = {}
    /\ blobs = {}
    /\ files = {}
    /\ presigned = {}
    /\ limiterOn \in BOOLEAN
    /\ api = [r \in Slots |-> IdleRequest]
    /\ wrk = [w \in Workers |-> IdleWorker]
    /\ sem = 0
    /\ usage = {}
    /\ deliveries = 0
    /\ bucket = NoBucket
    /\ webhook = NoHook
    /\ proc = IdleProcess
    /\ meter = NoMeter
    /\ stages = NoStage

\* PIXELFLOW_API_RATE_LIMIT_ENABLED=false: api.WithRateLimiter(nil, ...)
Init == InitApi /\ limiterOn = FALSE

ApiStep(r) ==
    \/ CreateJob_Persist(r)
    \/ CreateJob_Respond(r)
    \/ StartJob_Gate(r)
    \/ StartJob_Enqueue(r)
    \/ StartJob_MarkQueued(r)

WorkerStep(w) ==
    \/ Deliver(w)
    \/ Acquire(w)
    \/ MarkProcessing(w)
    \/ FinishPipeline(w)
    \/ RecordUsage(w)
    \/ Finish(w)

Next ==
    \/ \E r \in Slots :
          \/ \E body \in CoreBodies : Arrive(r, CreateRequest(body), CoreDecisions)
          \/ \E path \in CorePaths : Arrive(r, StartRequest(path), CoreDecisions)
          \/ ApiStep(r)
          \/ UploadBlob(r)
          \/ WriteFile(r)
    \/ \E w \in Workers : WorkerStep(w)

Spec == Init /\ [][Next]_vars

\* create_job alone, with every request body
NextCreate ==
    \E r \in Slots :
        \/ \E body \in Bodies : Arrive(r, CreateRequest(body), CoreDecisions)
        \/ CreateJob_Persist(r)
        \/ CreateJob_Respond(r)

SpecCreate == InitApi /\ [][NextCreate]_vars

\* The control plane alone, with every path and limiter answer
NextApi ==
    \E r \in Slots :
        \/ \E body \in CoreBodies : Arrive(r, CreateRequest(body), Decisions)
        \/ \E path \in StartPaths : Arrive(r, StartRequest(path), Decisions)
        \/ Arrive(r, HealthzRequest, Decisions)
        \/ ApiStep(r)
        \/ UploadBlob(r)
        \/ WriteFile(r)

SpecApi == InitApi /\ [][NextApi]_vars

\* The token bucket alone: one key, calls and the passing of time
InitBucket ==
    /\ jobs = [j \in JobIds |-> NoJob]
    /\ queue = {}
    /\ submitted = {}
    /\ blobs = {}
    /\ files = {}
    /\ presigned = {}
    /\ limiterOn = TRUE
    /\ api = [r \in Slots |-> IdleRequest]
    /\ wrk = [w \in Workers |-> IdleWorker]
    /\ sem = 0
    /\ usage = {}
    /\ deliveries = 0
    /\ \E cfg \in Configs : bucket = NewRedisTokenBucket(cfg[1], cfg[2])
    /\ webhook = NoHook
    /\ proc = IdleProcess
    /\ meter = NoMeter
    /\ stages = NoStage

NextBucket == Allow \/ Tick

SpecBucket == InitBucket /\ [][NextBucket]_vars

\* Replicas with clocks that differ, calling on one key
NextReplicas == AllowOnReplica

SpecReplicas == InitBucket /\ [][NextReplicas]_vars

\* The middleware in front of a limiter, requests of several users
NextLimited == RateLimit

SpecLimited == InitBucket /\ [][NextLimited]_vars

\* The clock of the replica that calls, in ms
StoredNow == 20000

\* Hashes other replicas left under the key: tokens between none and more than
\* this replica's capacity, written a time to live, a refill interval or a
\* millisecond before this replica's clock, at it, or after it
StoredTokens(capacity) ==
    {Zero, FDiv(FromInt(1), FromInt(2)), FromInt(1), FromInt(capacity),
     FromInt(capacity + 1)}
StoredTimestamps(b) ==
    {StoredNow - b.ttl_ms, StoredNow - CeilDiv(b.window_ms, b.capacity), StoredNow - 1,
     StoredNow, StoredNow + 3}

\* The token bucket on a key that is absent or holds any hash
InitStored ==
    /\ jobs = [j \in JobIds |-> NoJob]
    /\ queue = {}
    /\ submitted = {}
    /\ blobs = {}
    /\ files = {}
    /\ presigned = {}
    /\ limiterOn = TRUE
    /\ api = [r \in Slots |-> IdleRequest]
    /\ wrk = [w \in Workers |-> IdleWorker]
    /\ sem = 0
    /\ usage = {}
    /\ deliveries = 0
    /\ \E cfg \in Configs :
          \E b \in {[NewRedisTokenBucket(cfg[1], cfg[2]) EXCEPT !.now = StoredNow]} :
              \/ bucket = b
              \/ \E tokens \in StoredTokens(b.capacity), timestamp \in StoredTimestamps(b) :
                    bucket = [b EXCEPT !.stored = TRUE, !.tokens = tokens,
                                       !.timestamp = timestamp]
    /\ webhook = NoHook
    /\ proc = IdleProcess
    /\ meter = NoMeter
    /\ stages = NoStage

\* Calls at one time
NextStored == Allow

SpecStored == InitStored /\ [][NextStored]_vars

\* The webhook client alone: one call of Send under every configuration
InitHook ==
    /\ jobs = [j \in JobIds |-> NoJob]
    /\ queue = {}
    /\ submitted = {}
    /\ blobs = {}
    /\ files = {}
    /\ presigned = {}
    /\ limiterOn = FALSE
    /\ api = [r \in Slots |-> IdleRequest]
    /\ wrk = [w \in Workers |-> IdleWorker]
    /\ sem = 0
    /\ usage = {}
    /\ deliveries = 0
    /\ bucket = NoBucket
    /\ \E cfg \in HookConfigs : webhook = NewClient(cfg)
    /\ proc = IdleProcess
    /\ meter = NoMeter
    /\ stages = NoStage

NextHook == Send_Begin \/ Send_Attempt \/ Send_Wait \/ Cancel

SpecHook == InitHook /\ [][NextHook]_vars

\* The processor alone: one call of Process on every request
InitProcess ==
    /\ jobs = [j \in JobIds |-> NoJob]
    /\ queue = {}
    /\ submitted = {}
    /\ blobs = {}
    /\ files = {}
    /\ presigned = {}
    /\ limiterOn = FALSE
    /\ api = [r \in Slots |-> IdleRequest]
    /\ wrk = [w \in Workers |-> IdleWorker]
    /\ sem = 0
    /\ usage = {}
    /\ deliveries = 0
    /\ bucket = NoBucket
    /\ webhook = NoHook
    /\ \E variant \in Variants : proc = [IdleProcess EXCEPT !.variant = variant]
    /\ meter = NoMeter
    /\ stages = NoStage

NextProcess == Process_Begin \/ Process_Transform \/ Process_Emit \/ Process_Cancel

SpecProcess == InitProcess /\ [][NextProcess]_vars

\* start_job alone, on a job that exists: the create request has been answered,
\* the source is there or not, and the row has any status; a row past created
\* has been started before, by a request that submitted the message of task 0
JobStatuses ==
    {JobStatusCreated, JobStatusQueued, JobStatusProcessing, JobStatusSucceeded,
     JobStatusFailed}

InitStart ==
    /\ limiterOn \in BOOLEAN
    /\ \E body \in {b \in CoreBodies : Validate(b) = "nil"}, status \in JobStatuses,
          uploaded \in BOOLEAN :
          \E job \in {NewJob(JobIdPool[1], body)} :
             \E admitted \in {withRateLimit(CreateRequest(body), limiterOn,
                                            Decision(TRUE, 1, 0))} :
                \E stored \in {CreateOutcome(admitted, job, FALSE, FALSE)} :
                   /\ jobs = [j \in JobIds |-> IF j = job.id
                                               THEN [job EXCEPT !.status = status]
                                               ELSE NoJob]
                   /\ api = [r \in Slots |->
                               IF r = 1
                               THEN Respond([stored EXCEPT
                                                !.out_job_id = job.id,
                                                !.out_object_key = job.object_key,
                                                !.out_state = stored.presign], 202)
                               ELSE IdleRequest]
                   /\ submitted = IF status = JobStatusCreated THEN {}
                                  ELSE {Message(0, job, 0)}
                   /\ queue = IF status = JobStatusQueued THEN {Message(0, job, 0)} ELSE {}
                   /\ presigned = IF job.source_type = SourceTypeS3Presigned
                                  THEN {job.object_key} ELSE {}
                   /\ blobs = IF uploaded /\ job.source_type = SourceTypeS3Presigned
                              THEN {job.object_key} ELSE {}
                   /\ files = IF uploaded /\ job.source_type = SourceTypeLocalFile
                              THEN {job.object_key} ELSE {}
    /\ wrk = [w \in Workers |-> IdleWorker]
    /\ sem = 0
    /\ usage = {}
    /\ deliveries = 0
    /\ bucket = NoBucket
    /\ webhook = NoHook
    /\ proc = IdleProcess
    /\ meter = NoMeter
    /\ stages = NoStage

NextStart ==
    \E r \in Slots :
        \/ \E path \in StartPaths : Arrive(r, StartRequest(path), CoreDecisions)
        \/ StartJob_Gate(r)
        \/ StartJob_Enqueue(r)
        \/ StartJob_MarkQueued(r)

SpecStart == InitStart /\ [][NextStart]_vars

\* The stage helpers alone: one token sanitized twice, or one step's format
InitStages ==
    /\ jobs = [j \in JobIds |-> NoJob]
    /\ queue = {}
    /\ submitted = {}
    /\ blobs = {}
    /\ files = {}
    /\ presigned = {}
    /\ limiterOn = FALSE
    /\ api = [r \in Slots |-> IdleRequest]
    /\ wrk = [w \in Workers |-> IdleWorker]
    /\ sem = 0
    /\ usage = {}
    /\ deliveries = 0
    /\ bucket = NoBucket
    /\ webhook = NoHook
    /\ proc = IdleProcess
    /\ meter = NoMeter
    /\ \/ \E in \in Tokens : stages = [NoStage EXCEPT !.pc = "token", !.in = in]
       \/ \E t \in Transformers, f \in StepFormats, d \in Detected :
             stages = [NoStage EXCEPT !.pc = "step", !.transformer = t,
                                     !.step_format = f, !.detected = d]

NextStages == Sanitize \/ SanitizeAgain \/ TransformFormat

SpecStages == InitStages /\ [][NextStages]_vars

\* recordUsage alone: one call on every result and duration
InitUsage ==
    /\ jobs = [j \in JobIds |-> NoJob]
    /\ queue = {}
    /\ submitted = {}
    /\ blobs = {}
    /\ files = {}
    /\ presigned = {}
    /\ limiterOn = FALSE
    /\ api = [r \in Slots |-> IdleRequest]
    /\ wrk = [w \in Workers |-> IdleWorker]
    /\ sem = 0
    /\ usage = {}
    /\ deliveries = 0
    /\ bucket = NoBucket
    /\ webhook = NoHook
    /\ proc = IdleProcess
    /\ meter = NoMeter
    /\ stages = NoStage

NextUsage == Meter

SpecUsage == InitUsage /\ [][NextUsage]_vars

\* The worker alone: a job that was started MaxMessages times, without a
\* webhook_url, with a blank one or with one that names an endpoint
InitWorker ==
    /\ \E hook \in {<<>>, <<" ">>, <<"h">>} :
          \E job \in {Job(JobIdPool[1], JobStatusQueued, SourceTypeLocalFile, <<"a">>,
                           hook, <<GoodStep>>)} :
             /\ jobs = [j \in JobIds |-> IF j = job.id THEN job ELSE NoJob]
             /\ \E unreadable \in BOOLEAN :
                   queue = {IF unreadable /\ t = MaxMessages THEN Garbage(t)
                            ELSE Message(t, job, 0) : t \in 1..MaxMessages}
    /\ submitted = queue
    /\ blobs = {}
    /\ files = {<<"a">>}
    /\ presigned = {}
    /\ limiterOn = FALSE
    /\ api = [r \in Slots |-> IdleRequest]
    /\ wrk = [w \in Workers |-> IdleWorker]
    /\ sem = 0
    /\ usage = {}
    /\ deliveries = 0
    /\ bucket = NoBucket
    /\ webhook = NoHook
    /\ proc = IdleProcess
    /\ meter = NoMeter
    /\ stages = NoStage

NextWorker == \E w \in Workers : WorkerStep(w)

SpecWorker == InitWorker /\ [][NextWorker]_vars

\* The worker with deliveries whose context is cancelled; every handler goroutine
\* that can take a step is scheduled in the end
NextCancel == NextWorker \/ \E w \in Workers : CancelDelivery(w)

SpecCancel ==
    InitWorker /\ [][NextCancel]_vars /\ \A w \in Workers : WF_vars(WorkerStep(w))

----------------------------------------------------------------------------
(* Properties *)

Terminal == {JobStatusProcessing, JobStatusSucceeded, JobStatusFailed}

SubmittedBy(r) == {m \in submitted : m.task = r}

\* C1: a start_job whose source-existence check reports the source as absent
\* answers 409 and has submitted no queue message.
C1_NoEnqueueWhenSourceMissing ==
    \A r \in Slots :
        api[r].src = "missing"
            => /\ api[r].pc = "done"
               /\ api[r].code = 409
               /\ api[r].enq = "none"
               /\ SubmittedBy(r) = {}

C1_Witness ==
    \E r \in Slots :
        /\ api[r].op = "start" /\ api[r].src = "missing" /\ api[r].code = 409
        /\ jobs[api[r].jid].source_type = SourceTypeS3Presigned

\* C2: the stored status never goes from processing, succeeded or failed back to
\* queued or created.
C2_StatusNeverGoesBack ==
    [][\A j \in JobIds :
          jobs[j].status \in Terminal
              => jobs'[j].status \notin {JobStatusQueued, JobStatusCreated}]_vars

\* C3: every message submitted to the queue names a job whose row is in the store.
C3_RowBeforeMessage ==
    \A m \in submitted \cup queue \cup {wrk[w].msg : w \in {v \in Workers : wrk[v].pc # "idle"}} :
        HasRow(m.job_id)

C3_Witness == \E m \in submitted : HasRow(m.job_id) /\ m \notin queue

\* C4: the status queued is written only by a start_job whose enqueue succeeded,
\* and a start_job whose enqueue fails answers 500 and leaves the store as it was.
C4_QueuedOnlyAfterEnqueue ==
    [][/\ \A r \in Slots :
             api[r].pc = "s_enqueue" /\ api'[r].pc # "s_enqueue" /\ queue' = queue
                 => api'[r].pc = "done" /\ api'[r].code = 500 /\ jobs' = jobs
       /\ \A r \in Slots :
             api'[r].pc = "s_status" \/ (api'[r].op = "start" /\ api'[r].code = 202)
                 => \E m \in submitted' : m.task = r /\ m.job_id = api'[r].jid
       /\ \A j \in JobIds :
             jobs'[j].status = JobStatusQueued /\ jobs[j].status # JobStatusQueued
                 => \E r \in Slots : /\ api[r].pc = "s_status" /\ api'[r].pc = "done"
                                     /\ api[r].jid = j
                                     /\ SubmittedBy(r) # {}]_vars

C4_Witness ==
    \E r \in Slots :
        /\ api[r].enq = "failed" /\ api[r].code = 500
        /\ jobs[api[r].jid].status = JobStatusCreated

\* C5: when create_job is about to answer 202, and ever after, the row of the
\* returned job id is in the store, with status created when the response is
\* sent; a failed presign or insert is answered 500.
C5_RowBeforeResponse ==
    \A r \in Slots :
        api[r].op = "create" =>
            /\ api[r].pc = "c_respond"
                   => HasRow(api[r].jid) /\ jobs[api[r].jid].status = JobStatusCreated
            /\ api[r].code = 202
                   => /\ HasRow(api[r].out_job_id)
                      /\ api[r].stored = "ok" /\ api[r].presign # "failed"
            /\ api[r].presign = "failed" \/ api[r].stored = "failed"
                   => api[r].pc = "done" /\ api[r].code = 500

C5_Witness ==
    \E r \in Slots : api[r].op = "create" /\ api[r].code = 202 /\ api[r].out_job_id # ""

\* C6: an s3_presigned job is answered with object_key "uploads/"+job_id+"/source"
\* and state ready, and its stored object_key is that value in every state.
C6_ObjectKeyFixed ==
    /\ \A r \in Slots :
          api[r].op = "create" /\ api[r].code = 202
            /\ jobs[api[r].out_job_id].source_type = SourceTypeS3Presigned
              => /\ api[r].out_object_key = UploadKey(api[r].out_job_id)
                 /\ api[r].out_state = "ready"
    /\ \A j \in JobIds :
          HasRow(j) /\ jobs[j].source_type = SourceTypeS3Presigned
              => jobs[j].object_key = UploadKey(j)
    /\ \A r \in Slots :
          api[r].op = "create" /\ api[r].code = 202 /\ api[r].out_state = "ready"
              => jobs[api[r].out_job_id].object_key = api[r].out_object_key

C6_Witness ==
    \E r \in Slots :
        /\ api[r].op = "create" /\ api[r].code = 202 /\ api[r].out_state = "ready"
        /\ jobs[api[r].out_job_id].status = JobStatusSucceeded

IsBlank(s) == \A i \in 1..Len(s) : s[i] \in Whitespace

\* The bodies C7 speaks of
Rejectable(b) ==
    LET st == ToLower(TrimSpace(b.source_type))
    IN  \/ st \notin {SourceTypeLocalFile, SourceTypeS3Presigned}
        \/ st = SourceTypeLocalFile /\ IsBlank(b.object_key)
        \/ b.pipeline = <<>>
        \/ \E i \in 1..Len(b.pipeline) :
              IsBlank(b.pipeline[i].id) \/ IsBlank(b.pipeline[i].action)

\* C7: create_job answers 400, creates no row and requests no presigned URL for a
\* body with an unsupported source_type, a local_file without object_key, an empty
\* pipeline, or a step with a blank id or action.
C7_InvalidBodyRejected ==
    [][\A r \in Slots :
          api[r].pc = "c_admit" /\ api'[r].pc # "c_admit" /\ Rejectable(api[r].body)
              => /\ api'[r].pc = "done" /\ api'[r].code = 400
                 /\ api'[r].jid = ""
                 /\ jobs' = jobs
                 /\ presigned' = presigned]_vars

C7_Witness ==
    \E r \in Slots : api[r].op = "create" /\ api[r].code = 400 /\ api[r].limiter = "allowed"

\* C8: a start_job whose source-existence check itself fails answers 500 and does
\* not enqueue.
C8_CheckFailureIs500 ==
    \A r \in Slots :
        api[r].src = "error"
            => api[r].pc = "done" /\ api[r].code = 500 /\ SubmittedBy(r) = {}

\* C9: a request the limiter denies is answered 429 with Retry-After >= 1 and
\* X-RateLimit-Remaining, and its handler does not run.
C9_DeniedIs429 ==
    \A r \in Slots :
        api[r].limiter = "denied"
            => /\ api[r].pc = "done" /\ api[r].code = 429
               /\ Len(api[r].hdrRetryAfter) = 1 /\ api[r].hdrRetryAfter[1] >= 1
               /\ Len(api[r].hdrRemaining) = 1
               /\ api[r].jid = "" /\ api[r].stored = "none" /\ api[r].presign = "none"
               /\ api[r].src = "unchecked" /\ api[r].enq = "none"
               /\ api[r].out_job_id = ""
               /\ SubmittedBy(r) = {}

C9_Witness ==
    \E r \in Slots :
        api[r].limiter = "denied" /\ api[r].code = 429 /\ api[r].hdrRetryAfter = <<1>>

\* C10: a request whose limiter call fails is handed to its handler as it is
\* without a limiter, and is never answered 429.
C10_LimiterErrorFailsOpen ==
    [][\A r \in Slots :
          /\ api[r].pc = "idle" /\ api'[r].limiter = "error"
                => LET req == [IdleRequest EXCEPT !.op = api'[r].op,
                                                  !.body = api'[r].body,
                                                  !.path = api'[r].path,
                                                  !.limiter = "error"]
                   IN  api'[r] = Dispatch(req) /\ api'[r].pc # "done"
          /\ api'[r].limiter = "error" => api'[r].code # 429]_vars

C10_Witness ==
    \E r \in Slots : api[r].limiter = "error" /\ api[r].op = "start" /\ api[r].code = 202

\* The calls made on the key since it had no hash all fell within less than one
\* refill interval (window / capacity)
InBurst ==
    /\ bucket.last.made /\ ~bucket.last.err
    /\ (bucket.timestamp - bucket.first) * bucket.capacity < bucket.window_ms

\* The first N calls of a burst on a fresh key are allowed with a remaining value
\* that never increases and is 0 at the N-th; the (N+1)-th is denied with
\* retry_after_ms at most bound
BurstWithin(bound) ==
    InBurst =>
        /\ bucket.calls <= bucket.capacity
              => /\ bucket.last.allowed
                 /\ bucket.last.remaining <= bucket.prev
                 /\ bucket.calls = bucket.capacity => bucket.last.remaining = 0
        /\ bucket.calls = bucket.capacity + 1
              => /\ ~bucket.last.allowed
                 /\ bucket.last.retry_after_ms <= bound

\* C11 (as stated): N calls on a fresh key within less than one refill interval are
\* all allowed, remaining never increases and reaches 0 at the N-th call, and the
\* (N+1)-th call is denied with retry_after_ms <= ceil(window_ms / N).
C11_BurstExactBound == BurstWithin(CeilDiv(bucket.window_ms, bucket.capacity))

\* C11 (amended): the same, with retry_after_ms <= ceil(window_ms / N) + 1; the
\* script divides in double precision, and 1 / (N / window_ms) can round to just
\* above window_ms / N.
C11_BurstRoundedBound == BurstWithin(CeilDiv(bucket.window_ms, bucket.capacity) + 1)

C11_Witness ==
    /\ InBurst
    /\ bucket.capacity > 1
    /\ bucket.calls = bucket.capacity + 1
    /\ ~bucket.last.allowed
    /\ bucket.timestamp > bucket.first

\* C12: every denied decision of the token bucket reports remaining = 0 and
\* retry_after_ms >= 1.
C12_DeniedDecision ==
    bucket.last.made /\ ~bucket.last.err /\ ~bucket.last.allowed
        => bucket.last.remaining = 0 /\ bucket.last.retry_after_ms >= 1

C12_Witness ==
    /\ bucket.last.made /\ ~bucket.last.err /\ ~bucket.last.allowed
    /\ bucket.tokens # Zero
    /\ bucket.calls > bucket.capacity + 1

Holding == {"w_processing", "w_pipeline", "w_failed", "w_usage", "w_succeeded"}

\* C13: the handlers between acquiring the active-job slot and returning are at
\* most max(1, MaxActiveJobs), however many messages are delivered concurrently.
C13_ActiveJobsBounded ==
    Cardinality({w \in Workers : wrk[w].pc \in Holding}) <= MaxActive

\* Every slot is held while another delivered message waits for one
C13_Witness ==
    /\ Cardinality({w \in Workers : wrk[w].pc \in Holding}) = MaxActive
    /\ \E w \in Workers : wrk[w].pc = "w_acquire"

\* The handler of delivery slot w returns in this step
Returns(w) == wrk[w].pc \in {"w_failed", "w_succeeded"} /\ wrk'[w].pc = "idle"

\* The message asynq schedules again after a failed delivery of msg
Retry(msg) == [msg EXCEPT !.retried = @ + 1]

\* C14: a delivery whose pipeline failed has written status failed, makes the
\* job.failed webhook request (when the job has a webhook_url) and returns the
\* "run pipeline" error, which is not skip-retry, whether that request succeeded or
\* not, so the message is scheduled again; it wrote no usage row and sends no
\* job.completed event.
C14_PipelineFailureIsRetried ==
    [][\A w \in Workers :
          Returns(w) /\ wrk[w].result = "error" =>
             /\ wrk[w].wrote = <<JobStatusProcessing, JobStatusFailed>>
             /\ wrk'[w].events \in
                   IF TrimSpace(wrk[w].msg.webhook_url) = <<>> THEN {<<>>}
                   ELSE {<<[event |-> "job.failed", sent |-> o]>> : o \in {"delivered", "failed"}}
             /\ wrk'[w].err = "run pipeline"
             /\ ~SkipsRetry(wrk'[w].err)
             /\ wrk[w].msg.retried < MaxRetry => Retry(wrk[w].msg) \in queue'
             /\ ~wrk'[w].logged
             /\ usage' = usage
             /\ \A row \in usage : row.run # wrk[w].run]_vars

\* A failed delivery whose job.failed webhook was delivered returned the error and
\* its message waits for the retry
C14_Witness ==
    \E w \in Workers :
        /\ wrk[w].pc = "idle"
        /\ wrk[w].result = "error"
        /\ wrk[w].events = <<[event |-> "job.failed", sent |-> "delivered"]>>
        /\ wrk[w].err = "run pipeline"
        /\ Retry(wrk[w].msg) \in queue

\* The return of a delivery whose pipeline succeeded, unset saying that the job
\* asks for no callback: nil exactly when no callback is asked for (and then no
\* request is made) or the job.completed webhook was delivered; when the delivery
\* of the webhook failed, an error that is not skip-retry, and the message is
\* scheduled again
SuccessReturn(w, unset) ==
    Returns(w) /\ wrk[w].result = "ok" =>
       /\ wrk'[w].err = "nil" <=>
             \/ unset
             \/ wrk'[w].events = <<[event |-> "job.completed", sent |-> "delivered"]>>
       /\ unset => wrk'[w].events = <<>>
       /\ wrk'[w].err # "nil" =>
             /\ wrk'[w].events = <<[event |-> "job.completed", sent |-> "failed"]>>
             /\ ~SkipsRetry(wrk'[w].err)
             /\ wrk[w].msg.retried < MaxRetry => Retry(wrk[w].msg) \in queue'
       /\ wrk'[w].err = "nil" => queue' = queue

\* C15 as stated: a delivery whose pipeline succeeded returns success if and only
\* if the job.completed webhook was delivered or the job's webhook_url is the empty
\* string; a failed webhook delivery makes the queue deliver the message again.
C15_SuccessNeedsWebhookUnlessEmpty ==
    [][\A w \in Workers : SuccessReturn(w, wrk[w].msg.webhook_url = <<>>)]_vars

\* C15, amended: a delivery whose pipeline succeeded returns success if and only if
\* the job.completed webhook was delivered or the job's webhook_url is empty or
\* blank (white space only); a failed webhook delivery makes the queue deliver the
\* message again.
C15_SuccessNeedsWebhookUnlessBlank ==
    [][\A w \in Workers : SuccessReturn(w, TrimSpace(wrk[w].msg.webhook_url) = <<>>)]_vars

\* A successful run whose job.completed webhook failed returned an error and its
\* message waits for the retry
C15_Witness ==
    \E w \in Workers :
        /\ wrk[w].pc = "idle"
        /\ wrk[w].result = "ok"
        /\ wrk[w].events = <<[event |-> "job.completed", sent |-> "failed"]>>
        /\ wrk[w].err = "dispatch webhook"
        /\ Retry(wrk[w].msg) \in queue

\* The rows of usage_logs for a job
UsageRows(table, jobID) == {row \in table : row.job_id = jobID}

Is2xx(resp) == resp.kind = "status" /\ resp.status \in 200..299

\* Every one of the max_attempts attempts was made and failed
AllAttemptsFailed ==
    /\ Len(webhook.responses) = webhook.max_attempts
    /\ \A i \in 1..Len(webhook.responses) : ~Is2xx(webhook.responses[i])

\* Send makes at most max_attempts POST requests, none after a 2xx response, and
\* returns nil as soon as a response is 2xx
BoundedAttempts ==
    /\ Len(webhook.posts) <= webhook.max_attempts
    /\ Len(webhook.posts) = Len(webhook.responses)
    /\ \A i \in 1..Len(webhook.responses) :
          Is2xx(webhook.responses[i]) =>
             i = Len(webhook.responses) /\ webhook.pc = "done" /\ webhook.err = "nil"

\* C17 as stated: one Send makes at most max_attempts POST requests, returns nil
\* at the first 2xx response without a further attempt, and returns an error
\* exactly when all max_attempts attempts failed or the context was cancelled.
C17_ErrorIffAllFailedOrCancelled ==
    /\ BoundedAttempts
    /\ webhook.pc = "done" =>
          (webhook.err # "nil" <=> AllAttemptsFailed \/ webhook.cancelled)

\* C17, amended: one Send makes at most max_attempts POST requests and returns nil
\* at the first 2xx response without a further attempt; for a blank endpoint it
\* makes no request and returns nil; otherwise it returns an error exactly when all
\* max_attempts attempts failed, the context was cancelled, or the endpoint is not
\* a URL a request can be built for (and then no request is made).
C17_ErrorIffNoAttemptSucceeded ==
    /\ BoundedAttempts
    /\ webhook.pc = "done" =>
          IF webhook.endpoint = <<>>
          THEN webhook.err = "nil" /\ webhook.posts = <<>>
          ELSE /\ webhook.err # "nil" <=>
                     AllAttemptsFailed \/ webhook.cancelled \/ Malformed(webhook.endpoint)
               /\ Malformed(webhook.endpoint) => webhook.posts = <<>>

\* Send returned nil at a 2xx response to its second attempt, with a third attempt
\* left unused
C17_Witness ==
    /\ webhook.pc = "done"
    /\ webhook.err = "nil"
    /\ Len(webhook.posts) = 2
    /\ ~Is2xx(webhook.responses[1])
    /\ Is2xx(webhook.responses[2])
    /\ webhook.max_attempts > 1

\* C18: every webhook request carries the event name in X-Pixelflow-Event, a
\* non-empty X-Pixelflow-Timestamp, and in X-Pixelflow-Signature "sha256=" followed
\* by the hex HMAC-SHA256, under the signing secret, of that timestamp header, a
\* dot and the request's body.
C18_SignedHeaders ==
    \A i \in 1..Len(webhook.posts) :
        LET req == webhook.posts[i]
        IN  /\ req.header[HeaderEvent] = webhook.event
            /\ req.header[HeaderTimestamp] # <<>>
            /\ req.header[HeaderSignature] =
                  <<"sha256=",
                    HexEncodeToString(HmacSha256(webhook.secret,
                        req.header[HeaderTimestamp] \o <<".">> \o req.body))>>
            /\ req.body \in {Marshal(payload) : payload \in Payloads}

\* A second attempt of a job.failed event has been posted
C18_Witness ==
    /\ Len(webhook.posts) = 2
    /\ webhook.posts[2].header[HeaderEvent] = "job.failed"
    /\ Len(webhook.posts[2].header[HeaderTimestamp]) > 1

\* The stage calls of a run that reached call n: transform 1, emit 1, transform 2,
\* emit 2, ...
InOrder(calls) ==
    \A n \in 1..Len(calls) :
        calls[n] = Call(IF n % 2 = 1 THEN "transform" ELSE "emit", (n + 1) \div 2)

\* C19: Process transforms and emits the steps one at a time in declared order,
\* and when it succeeds every step has been transformed and emitted and Outputs
\* has one entry per step, in the order of the pipeline.
C19_StepsInDeclaredOrder ==
    /\ InOrder(proc.calls)
    /\ proc.pc = "done" /\ proc.err = "nil" =>
          /\ Len(proc.calls) = 2 * Len(proc.pipeline)
          /\ Len(proc.result) = Len(proc.pipeline)
          /\ \A k \in 1..Len(proc.pipeline) : proc.result[k] = Output(proc.pipeline[k])

\* A pipeline of MaxSteps steps with different ids has been processed
C19_Witness ==
    /\ proc.pc = "done"
    /\ proc.err = "nil"
    /\ Len(proc.pipeline) = MaxSteps
    /\ proc.pipeline[1].id # proc.pipeline[2].id

\* C20: when the transform or the emit of step k fails, Process returns the error
\* with no Outputs, and no step after k has been transformed or emitted.
C20_FailureDropsOutputs ==
    proc.pc = "done" /\ proc.err \in {"transform stage", "emit stage"} =>
       /\ proc.result = <<>>
       /\ LET k == proc.calls[Len(proc.calls)].step
          IN  /\ \A n \in 1..Len(proc.calls) : proc.calls[n].step <= k
              /\ Len(proc.outputs) = k - 1

\* The emit of the second of three steps failed after the first step's output was
\* written
C20_Witness ==
    /\ proc.pc = "done"
    /\ proc.err = "emit stage"
    /\ Len(proc.pipeline) > 2
    /\ proc.calls[Len(proc.calls)] = Call("emit", 2)
    /\ Len(proc.outputs) = 1
    /\ proc.result = <<>>

\* Process returned the fetch-stage error for an unsupported source type, and
\* nothing was transformed or emitted
RejectedAtFetch ==
    /\ proc.err = "fetch stage"
    /\ proc.cause = "unsupported source_type"
    /\ proc.calls = <<>>
    /\ proc.written = {}
    /\ proc.result = <<>>

\* Process got past the checks of the request
Fetching == proc.pc = "done" /\ TrimSpace(proc.job_id) # <<>> /\ Len(proc.pipeline) > 0

\* C21 as stated: the LocalProcessor fails at the fetch stage for every request
\* whose source_type is not the string local_file, the ObjectStoreProcessor for
\* every request whose source_type is local_file; nothing is transformed or
\* emitted then.
C21_RejectsOtherSourceType ==
    /\ Fetching /\ proc.variant = "local" /\ proc.source_type # SourceTypeLocalFile
          => RejectedAtFetch
    /\ Fetching /\ proc.variant = "object_store" /\ proc.source_type = SourceTypeLocalFile
          => RejectedAtFetch

\* C21, amended: source types are compared without regard to letter case. The
\* LocalProcessor fails at the fetch stage for every request whose source_type is
\* not local_file in any letter case, the ObjectStoreProcessor for every request
\* whose source_type is local_file in any letter case; nothing is transformed or
\* emitted then.
C21_RejectsOtherSourceTypeFolded ==
    /\ Fetching /\ proc.variant = "local"
                /\ ToLower(proc.source_type) # SourceTypeLocalFile => RejectedAtFetch
    /\ Fetching /\ proc.variant = "object_store"
                /\ ToLower(proc.source_type) = SourceTypeLocalFile => RejectedAtFetch

\* Both rejections happen: the local processor was given s3_presigned, or the
\* object-store processor local_file
C21_Witness ==
    /\ RejectedAtFetch
    /\ \/ proc.variant = "local" /\ proc.source_type = SourceTypeS3Presigned
       \/ proc.variant = "object_store" /\ proc.source_type = SourceTypeLocalFile

\* What section 4.3 prescribes for one call at the time b.now on the key of b:
\* the hash written and the decision returned
Prescribed(b) ==
    LET absent == ~b.stored \/ b.now - b.timestamp >= 2 * b.window_ms
        before == IF absent THEN FromInt(b.capacity) ELSE b.tokens
        since == IF absent \/ b.now < b.timestamp THEN 0 ELSE b.now - b.timestamp
        sum == FAdd(before, FMul(FromInt(since), b.refill_per_ms))
        tokens == IF FCmp(sum, FromInt(b.capacity)) > 0 THEN FromInt(b.capacity) ELSE sum
        allowed == FCmp(tokens, FromInt(1)) >= 0
        written == IF allowed THEN FSub(tokens, FromInt(1)) ELSE tokens
    IN  [tokens |-> written,
         timestamp |-> b.now,
         allowed |-> allowed,
         remaining |-> Floor(written),
         retry_after_ms |-> IF allowed THEN 0
                            ELSE Ceil(FDiv(FSub(FromInt(1), tokens), b.refill_per_ms))]

\* A step in which Allow ran the script
Answered == bucket' # bucket /\ bucket'.last.made /\ ~bucket'.last.err

\* C22: for every state stored under a key (absent, or any tokens and timestamp)
\* and every time of the call, one call of Allow writes the tokens and the timestamp
\* and returns the decision that section 4.3 prescribes: an absent key starts at
\* capacity, a negative elapsed time counts as 0, the refilled tokens are capped at
\* capacity, and exactly one token is allowed and leaves 0.
C22_AllowFollowsScript ==
    [][Answered =>
          \E want \in {Prescribed(bucket)} :
              /\ bucket'.stored
              /\ bucket'.tokens = want.tokens
              /\ bucket'.timestamp = want.timestamp
              /\ bucket'.last.allowed = want.allowed
              /\ bucket'.last.remaining = want.remaining
              /\ bucket'.last.retry_after_ms = want.retry_after_ms]_vars

\* A call found a hash written after its own clock and fewer than one token in
\* it, and was denied
C22_Witness ==
    /\ bucket.last.made /\ ~bucket.last.err
    /\ bucket.lag < 0
    /\ ~bucket.last.allowed
    /\ bucket.tokens # Zero

\* C23: the slots taken are those of the handlers between acquiring one and
\* returning: a handler holds its slot through the status writes, the usage write
\* and the webhook, gives it back exactly once when it returns on any path, never
\* takes one when its payload does not parse, and no slot is taken when no handler
\* runs.
C23_SlotHeldUntilReturn ==
    /\ [](sem = Cardinality({w \in Workers : wrk[w].pc \in Holding}))
    /\ [][\A w \in Workers :
             /\ Returns(w) => sem' = sem - 1
             /\ wrk[w].pc \in Holding /\ wrk'[w].pc \in Holding /\ wrk'[w] # wrk[w]
                   => sem' = sem
             /\ wrk[w].pc = "idle" /\ wrk'[w].pc = "idle" /\ wrk'[w] # wrk[w]
                   => sem' = sem]_vars

\* Every handler has returned, one after a failed webhook and one on a payload
\* that does not parse, and no slot is taken
C23_Witness ==
    /\ sem = 0
    /\ \A w \in Workers : wrk[w].pc = "idle"
    /\ \E w \in Workers : wrk[w].err = "dispatch webhook"
    /\ \E w \in Workers : wrk[w].err = "parse payload"

\* The handler of delivery slot w returns the parse error in this step
Unparsed(w) ==
    wrk[w].pc = "idle" /\ wrk'[w] # wrk[w] /\ wrk'[w].err = "parse payload"

\* C26: a handler whose payload does not parse returns an error that tells the
\* queue to skip the retry, so the message is gone from the queue and is not
\* scheduled again, and it does nothing else: no status write, no slot, no
\* pipeline, no usage row, no webhook.
C26_ParseFailureIsTerminal ==
    [][\A w \in Workers :
          Unparsed(w) =>
             /\ wrk'[w].pc = "idle"
             /\ queue' = queue \ {wrk'[w].msg}
             /\ \A m \in queue' : m.task # wrk'[w].msg.task
             /\ jobs' = jobs /\ sem' = sem /\ usage' = usage
             /\ wrk'[w].wrote = <<>> /\ wrk'[w].result = "none"
             /\ ~wrk'[w].logged /\ wrk'[w].events = <<>>]_vars

\* The handler returned the parse error while another one held the slot
C26_Witness ==
    \E w, v \in Workers :
        /\ wrk[w].pc = "idle" /\ wrk[w].err = "parse payload"
        /\ wrk[v].pc \in Holding

\* C24: a handler that is blocked waiting for a slot (every slot is taken) when the
\* context of its delivery is cancelled stops waiting and returns from that
\* delivery without having run the pipeline.
C24_CancelledWaiterReturns ==
    \A w \in Workers, r \in 1..MaxDeliveries :
        (wrk[w].pc = "w_acquire" /\ sem >= MaxActive /\ wrk[w].cancelled /\ wrk[w].run = r)
            ~> (wrk[w].pc = "idle" /\ wrk[w].run = r /\ wrk[w].result = "none")

\* The call named first was made before the call named second in the sequence of
\* calls did
Before(did, first, second) ==
    \E i, j \in 1..Len(did) : i < j /\ did[i] = first /\ did[j] = second

Made(did, call) == \E i \in 1..Len(did) : did[i] = call

\* C25: within one delivery the processing status is written before the pipeline
\* is run (so before the fetch); the succeeded or failed status is written after
\* the pipeline finished and before the webhook is attempted; the usage row is
\* written after the succeeded status and before the job.completed webhook.
C25_EffectsInOrder ==
    \A w \in Workers :
        \E did \in {wrk[w].did} :
            /\ Made(did, "process") => Before(did, JobStatusProcessing, "process")
            /\ \A status \in {JobStatusSucceeded, JobStatusFailed} :
                  Made(did, status) => Before(did, "process", status)
            /\ Made(did, "job.failed") => Before(did, JobStatusFailed, "job.failed")
            /\ Made(did, "job.completed") =>
                  /\ Before(did, JobStatusSucceeded, "job.completed")
                  /\ Before(did, "usage", "job.completed")
            /\ Made(did, "usage") => Before(did, JobStatusSucceeded, "usage")
            /\ wrk[w].result # "none" => Made(did, "process")
            /\ wrk[w].result = "ok" /\ wrk[w].pc = "idle" => Made(did, "usage")

\* A delivery went through every call of the successful path and one through
\* those of the failing path
C25_Witness ==
    \E w, v \in Workers :
        /\ wrk[w].did = <<JobStatusProcessing, "process", JobStatusSucceeded, "usage",
                          "job.completed">>
        /\ wrk[v].did = <<JobStatusProcessing, "process", JobStatusFailed, "job.failed">>

\* The row of job id keeps a status other than the one written in this step: the
\* write failed
Lost(id, status) == HasRow(id) /\ jobs[id].status # status /\ jobs' = jobs

\* C27: a status write that fails changes nothing else. start_job answers 202 with
\* state queued after a successful enqueue although the queued write failed; the
\* worker's handler goes on to the pipeline although the processing write failed,
\* goes on to the usage write and the job.completed webhook although the succeeded
\* write failed, and sends job.failed and returns the pipeline error although the
\* failed write failed.
C27_StatusWriteFailureIsIgnored ==
    [][/\ \A r \in Slots :
             api[r].pc = "s_status" /\ api'[r] # api[r] /\ Lost(api[r].job.id, JobStatusQueued)
                => /\ api'[r].pc = "done" /\ api'[r].code = 202
                   /\ api'[r].out_state = JobStatusQueued
       /\ \A w \in Workers :
             /\ wrk[w].pc = "w_processing" /\ wrk'[w] # wrk[w]
                   /\ Lost(wrk[w].msg.job_id, JobStatusProcessing)
                => wrk'[w].pc = "w_pipeline"
             /\ wrk[w].pc = "w_pipeline" /\ wrk'[w].result = "ok"
                   /\ Lost(wrk[w].msg.job_id, JobStatusSucceeded)
                => wrk'[w].pc = "w_usage"
             /\ wrk[w].pc = "w_pipeline" /\ wrk'[w].result = "error"
                   /\ Lost(wrk[w].msg.job_id, JobStatusFailed)
                => wrk'[w].pc = "w_failed"
             /\ Returns(w) /\ HasRow(wrk[w].msg.job_id)
                   /\ ~Made(wrk[w].did, jobs[wrk[w].msg.job_id].status)
                => /\ wrk[w].result = "error" => wrk'[w].err = "run pipeline"
                   /\ TrimSpace(wrk[w].msg.webhook_url) # <<>> =>
                         /\ Len(wrk'[w].events) = 1
                         /\ wrk'[w].events[1].event =
                               IF wrk[w].result = "error" THEN "job.failed"
                                                          ELSE "job.completed"
                   /\ wrk[w].result = "ok" /\ wrk'[w].events = <<>> => wrk'[w].err = "nil"]_vars

\* start_job answered 202 and the handler returned nil after a successful pipeline
\* while the row still has the status it was created with: every status write
\* failed
C27_Witness ==
    /\ \E r \in Slots : api[r].op = "start" /\ api[r].code = 202
    /\ \E w \in Workers :
          /\ wrk[w].pc = "idle" /\ wrk[w].result = "ok" /\ wrk[w].err = "nil"
          /\ Len(wrk[w].wrote) = 2
          /\ jobs[wrk[w].msg.job_id].status = JobStatusCreated

\* The sum of width * height over a sequence of outputs
RECURSIVE SumArea(_)
SumArea(outputs) ==
    IF outputs = <<>> THEN 0
    ELSE Head(outputs).width * Head(outputs).height + SumArea(Tail(outputs))

\* The sum of the bytes of a sequence of outputs
RECURSIVE SumBytes(_)
SumBytes(outputs) ==
    IF outputs = <<>> THEN 0 ELSE Head(outputs).bytes + SumBytes(Tail(outputs))

\* C28: the usage row of a run has pixels_processed equal to the sum of
\* width * height over the outputs and bytes_saved equal to the source's bytes minus
\* the sum of the outputs' bytes, or 0 when that is negative.
C28_PixelsAndBytesSaved ==
    meter.pc = "done" =>
        /\ meter.row.pixels_processed = SumArea(meter.result.outputs)
        /\ \E saved \in {meter.result.source_bytes - SumBytes(meter.result.outputs)} :
              meter.row.bytes_saved = IF saved > 0 THEN saved ELSE 0

\* A source of 100 bytes with one output of 5 x 5 pixels and 200 bytes: 25 pixels
\* and 0 bytes saved
C28_Witness ==
    /\ meter.pc = "done"
    /\ meter.result.source_bytes = 100
    /\ meter.result.outputs = <<[width |-> 5, height |-> 5, bytes |-> 200]>>
    /\ meter.row.pixels_processed = 25
    /\ meter.row.bytes_saved = 0

\* C29: compute_time_ms of the usage row is the time since the handler started
\* in milliseconds, rounded up to a whole number, and at least 1.
C29_ComputeTimeRoundedUp ==
    meter.pc = "done" =>
        \E ms \in {(meter.duration + 999999) \div 1000000} :
            meter.row.compute_time_ms = IF ms < 1 THEN 1 ELSE ms

\* C30: in one call of Send the k-th wait, between the failed attempt k and the
\* attempt k + 1, is min(initial_backoff * 2^(k-1), max_backoff) of the client; so
\* every wait lies between initial_backoff and max_backoff and no wait is shorter
\* than the one before; each wait follows a failed attempt and none follows the
\* final, max_attempts-th attempt.
C30_BackoffDoublesUpToMax ==
    /\ \A k \in 1..Len(webhook.slept) :
          /\ \E doubled \in {webhook.initial_backoff * Pow2(k - 1)} :
                webhook.slept[k] = IF doubled < webhook.max_backoff THEN doubled
                                   ELSE webhook.max_backoff
          /\ webhook.initial_backoff <= webhook.slept[k]
          /\ webhook.slept[k] <= webhook.max_backoff
          /\ k > 1 => webhook.slept[k - 1] <= webhook.slept[k]
          /\ k <= Len(webhook.responses) /\ ~Is2xx(webhook.responses[k])
    /\ Len(webhook.slept) < webhook.max_attempts
    /\ webhook.pc = "done" /\ webhook.err = "webhook delivery failed"
          => Len(webhook.slept) = webhook.max_attempts - 1

\* Three attempts failed with waits of 10 and then 15, the maximum, between them
C30_Witness ==
    /\ webhook.pc = "done"
    /\ webhook.err = "webhook delivery failed"
    /\ Len(webhook.responses) = 3
    /\ webhook.slept = <<10, 15>>

\* C31: once the context of a call of Send is cancelled, at the top of the loop
\* or during the wait between attempts, the call makes no further request and
\* returns the error of the cancelled context; the only step it may take before
\* returning is from the wait to the top of the loop.
C31_CancellationAbortsRetries ==
    [][webhook.cancelled /\ webhook.pc \in {"loop", "wait"} /\ webhook' # webhook =>
          /\ webhook'.posts = webhook.posts
          /\ webhook'.responses = webhook.responses
          /\ webhook'.pc = "done" => webhook'.err = "context canceled"
          /\ webhook'.pc # "done" => webhook.pc = "wait" /\ webhook'.pc = "loop"]_vars

\* A call cancelled after its first failed attempt returned the cancellation
\* error with attempts left
C31_Witness ==
    /\ webhook.pc = "done"
    /\ webhook.cancelled
    /\ webhook.err = "context canceled"
    /\ Len(webhook.posts) = 1
    /\ webhook.max_attempts > 1

\* C39: all the requests of one call of Send carry the same body, the same
\* X-Pixelflow-Timestamp and the same X-Pixelflow-Signature: those of the first
\* request, computed before it and not refreshed on a retry.
C39_AttemptsCarrySameSignedBody ==
    \A i, j \in 1..Len(webhook.posts) :
        /\ webhook.posts[i].body = webhook.posts[j].body
        /\ webhook.posts[i].header[HeaderTimestamp] = webhook.posts[j].header[HeaderTimestamp]
        /\ webhook.posts[i].header[HeaderSignature] = webhook.posts[j].header[HeaderSignature]
        /\ webhook.posts[i].url = webhook.posts[j].url

\* A call made three requests
C39_Witness ==
    /\ Len(webhook.posts) = 3
    /\ webhook.posts[3].header[HeaderSignature] # <<>>
    /\ ~Is2xx(webhook.responses[1]) /\ ~Is2xx(webhook.responses[2])


C33_SanitizeKeepsLength ==
    stages.pc = "done" /\ stages.transformer = "none" =>
        /\ stages.in # <<>> =>
              /\ Len(stages.out) = Len(stages.in)
              /\ \A i \in 1..Len(stages.in) :
                    stages.out[i] = IF stages.in[i] \in PathChars THEN stages.in[i] ELSE "_"
        /\ \A i \in 1..Len(stages.out) : stages.out[i] \in PathChars
        /\ stages.again = stages.out
        /\ stages.out = Unknown => stages.in = <<>>

\* C33 amended: sanitize trims leading and trailing white space first; what is
\* left is mapped character by character (outside [A-Za-z0-9_-] to '_', every
\* other kept), so the result has the length of the trimmed input, holds only
\* characters of [A-Za-z0-9_-] and is a fixed point of sanitize; the inputs that
\* give "unknown" are the blank ones and those that trim to the word itself
C33_SanitizeTrimsThenReplaces ==
    stages.pc = "done" /\ stages.transformer = "none" =>
        LET t == TrimSpace(stages.in)
        IN  /\ t = <<>> => stages.out = Unknown
            /\ t # <<>> =>
                  /\ Len(stages.out) = Len(t)
                  /\ \A i \in 1..Len(t) :
                        stages.out[i] = IF t[i] \in PathChars THEN t[i] ELSE "_"
            /\ \A i \in 1..Len(stages.out) : stages.out[i] \in PathChars
            /\ stages.again = stages.out
            /\ stages.out = Unknown <=> (t = <<>> \/ t = Unknown)

\* A token with leading white space and a separator has been sanitized twice
C33_Witness ==
    /\ stages.pc = "done"
    /\ stages.in = <<" ", "a", "/">>
    /\ stages.out = <<"a", "_">>
    /\ stages.again = <<"a", "_">>

\* C34 as stated: the output format of a transformed step is step.format (jpg
\* read as jpeg) when that names jpeg, png or webp; for an empty or unknown
\* step.format it is the detected format of the source, and png when the source
\* format is not one that can be detected
C34_UnknownFormatFallsBackToSource ==
    stages.pc = "done" /\ stages.transformer # "none" /\ stages.err = "nil" =>
        LET asked == ToLower(TrimSpace(stages.step_format))
        IN  stages.format =
                IF asked = Jpg THEN Jpeg
                ELSE IF asked \in {Jpeg, Png, Webp} THEN asked
                ELSE IF stages.detected \in {Jpeg, Png, Webp} THEN stages.detected
                ELSE Png

\* C35 as stated: when no request is in a handler, no delivery is running and no
\* message is pending, the stored status of a started job is the outcome of its
\* last delivery: succeeded when that delivery's pipeline succeeded, failed when
\* it failed, and never still queued or processing
C35_StatusSettledAtQuiescence ==
    (/\ \A r \in Slots : api[r].pc \in {"idle", "done"}
     /\ \A w \in Workers : wrk[w].pc = "idle"
     /\ queue = {}) =>
        \A w \in Workers :
            (deliveries > 0 /\ wrk[w].run = deliveries /\ wrk[w].result # "none") =>
                jobs[wrk[w].msg.job_id].status =
                    IF wrk[w].result = "ok" THEN JobStatusSucceeded ELSE JobStatusFailed

\* C36: the process_image messages submitted for a job by start_job calls are as
\* many as the calls for it that answered 202 or are about to (the message is
\* submitted, the status write and the response remain). A call that answered
\* 202 submitted exactly one message; a call that answered 400, 404, 409, 429 or
\* 500 submitted none. The row's status plays no part: 409 is only ever the
\* answer to a failed source check
C36_OneMessagePerAcceptedStart ==
    /\ \A j \in JobIds :
          Cardinality({m \in submitted : m.job_id = j /\ m.task \in Slots}) =
          Cardinality({r \in Slots : /\ api[r].op = "start"
                                     /\ api[r].jid = j
                                     /\ \/ api[r].pc = "s_status"
                                        \/ api[r].pc = "done" /\ api[r].code = 202})
    /\ \A r \in Slots :
          api[r].op = "start" /\ api[r].pc = "done" =>
             /\ api[r].code \in {202, 400, 404, 409, 429, 500}
             /\ api[r].code = 202 => Cardinality(SubmittedBy(r)) = 1
             /\ api[r].code # 202 => SubmittedBy(r) = {}
             /\ api[r].code = 409 => api[r].src \in {"missing", "error"}

\* A job that had been started before is started again: the call answers 202
\* and a second message for the job is in the queue's history
C36_Witness ==
    \E r \in Slots :
        /\ api[r].op = "start" /\ api[r].pc = "done" /\ api[r].code = 202
        /\ Cardinality(SubmittedBy(r)) = 1
        /\ Cardinality({m \in submitted : m.job_id = api[r].jid}) = 2
        /\ \E m \in submitted : m.task = 0 /\ m.job_id = api[r].jid

\* C37 as stated: over the allow calls that replicas have made on one key, each
\* with its own now_ms, the calls allowed are at most capacity + refill_per_ms *
\* (largest now_ms - smallest now_ms), with refill_per_ms = capacity / window;
\* and the stored tokens lie within [0, capacity]
C37_AllowedWithinCapacityPlusRefill ==
    bucket.calls > 0 =>
        /\ (bucket.allowed - bucket.capacity) * bucket.window_ms
              <= bucket.capacity * (bucket.hi - bucket.lo)
        /\ FCmp(bucket.tokens, Zero) >= 0
        /\ FCmp(bucket.tokens, FromInt(bucket.capacity)) <= 0

\* C38: with one clock that never goes back, every answered allow call returns
\* the decision (allowed, remaining, retry_after_ms) and writes the hash (tokens,
\* timestamp) that the script returns and writes when the key's last hash is
\* still there however old it is; so the limiter whose keys expire after
\* 2 * window and the one whose keys never expire stay in step, call after call
C38_ExpiryUnobservable ==
    [][(/\ bucket'.last.made
        /\ ~bucket'.last.err
        /\ bucket'.now = bucket.now
        /\ bucket' # bucket) =>
            \E never \in {[bucket EXCEPT !.ttl_ms = bucket.now - bucket.timestamp + 1]} :
                \E out \in {Script(never, bucket.now, 1)} :
                    /\ bucket'.last = ReplyDecision(out.reply)
                    /\ bucket'.tokens = out.tokens
                    /\ bucket'.timestamp = out.timestamp]_vars

\* A call has been answered on a key that had been drained and had expired
C38_Witness ==
    /\ bucket.revived
    /\ bucket.last.made
    /\ bucket.last.allowed
    /\ bucket.last.remaining = bucket.capacity - 1
    /\ bucket.timestamp = bucket.now
    /\ bucket.now >= bucket.ttl_ms

\* C40: withRateLimit consults the limiter once for a request that is not a GET
\* and whose path starts with /v1/jobs, and not at all for any other request;
\* the subject it passes is the user (the trimmed header, or anonymous) followed
\* by ":" and the route label, which is /v1/jobs/{id}/start for a start path and
\* /v1/jobs otherwise. Each decision is the one a limiter would give that serves
\* only this user on this route, and the hash under each user's and route's key
\* is the hash of that limiter: other users and the other route leave no trace
C40_BucketsPerSubjectAndRoute ==
    /\ \E r \in {bucket.request} :
          \E user \in {IF TrimSpace(r.header) = <<>> THEN Anonymous
                                                    ELSE TrimSpace(r.header)} :
             /\ r.consulted = (IF r.method # "GET" /\ HasPrefix(r.path, PathJobs)
                               THEN 1 ELSE 0)
             /\ r.consulted = 1 =>
                   /\ r.subject = user \o <<":">> \o
                                    (IF r.path = PathStart THEN LabelStart ELSE PathJobs)
                   /\ r.decision = r.alone
    /\ \A pair \in DOMAIN bucket.alone :
          \E key \in {pair[1] \o <<":">> \o pair[2]} :
             /\ key \in DOMAIN bucket.hashes
             /\ bucket.hashes[key] = bucket.alone[pair]
    /\ Cardinality(DOMAIN bucket.hashes) = Cardinality(DOMAIN bucket.alone)

\* With a capacity of one request, a user has been served on one route and is
\* then served on the other: two keys hold a spent bucket each
C40_Witness ==
    /\ bucket.capacity = 1
    /\ bucket.request.consulted = 1
    /\ bucket.request.path = PathStart
    /\ bucket.request.decision.made
    /\ bucket.request.decision.allowed
    /\ bucket.request.decision.remaining = 0
    /\ \E user \in {<<"a">>} :
          /\ TrimSpace(bucket.request.header) = user
          /\ DOMAIN bucket.hashes =
                {user \o <<":">> \o PathJobs, user \o <<":">> \o LabelStart}

====
